---- MODULE Spec2Model ----
(***************************************************************************)
(* The HTTP session shim of the MCP example servers: the map from session  *)
(* tokens to StreamableHTTPServerTransport objects and the POST / GET /    *)
(* DELETE handlers on /mcp, the transport callbacks and the SIGINT handler *)
(* that read and write it.                                                 *)
(*                                                                         *)
(* Two programs share the handler code and are both modelled, selected by  *)
(* the variable variant:                                                   *)
(*   "simple"    the simple streamable HTTP server: getServer() builds one *)
(*               McpServer per session, DELETE has a try/catch, SIGINT     *)
(*               runs a shutdown loop;                                     *)
(*   "enhanced"  the enhanced server: every transport is connected to the  *)
(*               one module-level McpServer, DELETE has no try/catch and   *)
(*               no SIGINT handler is installed.                           *)
(*                                                                         *)
(* Handlers are async functions on one cooperative thread: a handler runs  *)
(* atomically up to its next await, so each action below is the code       *)
(* between two awaits and pc is the await a handler is suspended at.       *)
(* What the SDK's transport does inside connect / handleRequest / close is *)
(* not part of the repository; each call either completes (firing the      *)
(* callbacks the handlers installed) or throws, chosen nondeterministically*)
(***************************************************************************)
EXTENDS Integers, Sequences, FiniteSets, TLC

\* Bounds of the model
MaxInFlight == 2     \* handlers suspended at an await at one time
MaxTransports == 2   \* transport objects constructed in one run

NoToken == 0         \* the mcp-session-id header is absent / sessionId undefined
NoTransport == 0     \* undefined: no transport object

Tokens == 1..MaxTransports
TransportIds == 1..MaxTransports
Variants == {"simple", "enhanced"}
CloseOutcomes == {"ok", "throwBefore", "throwAfter"}

VARIABLES
  variant,      \* which server program runs
  proc,         \* "running", "shutting" (SIGINT handler active), "exited"
  transports,   \* the session map: token -> transport, NoTransport if absent
  nTransports,  \* transports constructed so far; they are 1..nTransports
  sessionId,    \* transport.sessionId, NoToken until the session is initialized
  closed,       \* the transport's close() has run its onclose callback
  nextUuid,     \* UUIDs handed out by randomUUID so far
  connected,    \* the transport the shared McpServer was connected to last
  inflight,     \* the handlers suspended at an await, each with its locals
  last,         \* the response the step just taken gave a client, if any
  shut,         \* the SIGINT handler's loop state
  removals,     \* history: token -> how often an entry was taken out of the map
  fault         \* history: closing a transport removed an entry that maps
                \* to another transport

\* the state of the tool handlers of the enhanced server (src/mcp-server)
VARIABLES
  features,              \* serverConfig.features, read from the environment once
  registry,              \* the names registered with the McpServer at startup
  tasks,                 \* the tasks Map: its entries in insertion order
  environmentVariables,  \* the environmentVariables Map, likewise
  processEnv,            \* process.env: key -> value, Undefined if not set
  clock,                 \* what new Date() returns now
  result                 \* the call just dispatched and the envelope it returned

sessionVars == <<variant, proc, transports, nTransports, sessionId, closed,
                 nextUuid, connected, inflight, last, shut, removals, fault>>
toolVars == <<features, registry, tasks, environmentVariables, processEnv,
              clock, result>>

\* the state of the other programs of the repository
VARIABLES
  stream,  \* a call of start-notification-stream (src/unnamed/part_002)
  notes,   \* the NoteRepository of the notes app and its last response
  mcp      \* the McpService of the agent server and its callers

appVars == <<stream, notes, mcp>>
vars == <<sessionVars, toolVars, appVars>>

Made == 1..nTransports

(***************************************************************************)
(* The tool handlers of the enhanced server: data                          *)
(*                                                                         *)
(* A text is a sequence of one-character strings, so that the handlers'    *)
(* conversions (toUpperCase, replace, split, trim, includes) are computed  *)
(* character by character. A JavaScript Map is the sequence of its         *)
(* entries [k, v] in insertion order. A Date is the second it falls in.    *)
(***************************************************************************)
\* Bounds of the tool model
MaxTasks == 2        \* entries of the tasks map, and ids generateId draws from
MaxClock == 1        \* seconds the clock advances in one run
MaxBusyMaps == 1     \* maps that hold entries at the same time

Undefined == "undefined"     \* an enum-valued parameter or field left out
Absent == <<Undefined>>      \* a text parameter or field left out
NoDate == -1                 \* updatedAt: undefined

UpperLetters == {"A", "P", "X"}
Digits == {"1"}

\* String.prototype.toUpperCase / toLowerCase, one character
UpperChar(c) ==
  CASE c = "a" -> "A" [] c = "p" -> "P" [] c = "x" -> "X" [] OTHER -> c
LowerChar(c) ==
  CASE c = "A" -> "a" [] c = "P" -> "p" [] c = "X" -> "x" [] c = "T" -> "t"
    [] OTHER -> c
toLowerCase(s) == [i \in DOMAIN s |-> LowerChar(s[i])]

\* String.prototype.includes
includes(s, sub) ==
  \E i \in 0..(Len(s) - Len(sub)) :
    \A j \in 1..Len(sub) : s[i + j] = sub[j]

\* key.toUpperCase().replace(/[^A-Z0-9_]/g, '_')
sanitizeEnvKey(key) ==
  [i \in DOMAIN key |->
     IF UpperChar(key[i]) \in UpperLetters \cup Digits \cup {"_"}
     THEN UpperChar(key[i]) ELSE "_"]

\* /^[A-Z][A-Z0-9_]*$/
isValidEnvKey(key) ==
  /\ Len(key) > 0
  /\ key[1] \in UpperLetters
  /\ \A i \in 2..Len(key) : key[i] \in UpperLetters \cup Digits \cup {"_"}

\* s.split(','): the pieces between the commas, in order
RECURSIVE split(_)
split(s) ==
  IF \A i \in DOMAIN s : s[i] # ","
  THEN <<s>>
  ELSE LET i == CHOOSE i \in DOMAIN s :
                  s[i] = "," /\ \A j \in 1..(i - 1) : s[j] # ","
       IN <<SubSeq(s, 1, i - 1)>> \o split(SubSeq(s, i + 1, Len(s)))

\* String.prototype.trim
RECURSIVE trim(_)
trim(s) ==
  IF s = <<>> THEN s
  ELSE IF Head(s) = " " THEN trim(Tail(s))
  ELSE IF s[Len(s)] = " " THEN trim(SubSeq(s, 1, Len(s) - 1))
  ELSE s

\* tags.split(',').map(tag => tag.trim()).filter(tag => tag.length > 0)
parseTags(s) ==
  LET pieces == split(s)
      trimmed == [i \in DOMAIN pieces |-> trim(pieces[i])]
  IN SelectSeq(trimmed, LAMBDA t : Len(t) > 0)

\* Map.prototype.has / get / set / delete / values over the entry sequence;
\* set on a key that is present replaces the value where the entry stands
MapHas(m, k) == \E i \in DOMAIN m : m[i].k = k
MapIndex(m, k) == CHOOSE i \in DOMAIN m : m[i].k = k
MapGet(m, k) == m[MapIndex(m, k)].v
MapSetAppend(m, k, v) == Append(m, [k |-> k, v |-> v])
MapSet(m, k, v) ==
  IF MapHas(m, k)
  THEN [m EXCEPT ![MapIndex(m, k)] = [k |-> k, v |-> v]]
  ELSE Append(m, [k |-> k, v |-> v])
MapDelete(m, k) == SelectSeq(m, LAMBDA e : e.k # k)
MapValues(m) == [i \in DOMAIN m |-> m[i].v]
MapKeys(m) == {m[i].k : i \in DOMAIN m}

\* getBooleanEnvVar: the default if the variable is not set, else whether it
\* reads "true" in any case or "1"
getBooleanEnvVar(value, defaultValue) ==
  IF value = Absent THEN defaultValue
  ELSE toLowerCase(value) = <<"t", "r", "u", "e">> \/ value = <<"1">>

\* what FEATURE_EMAIL_ENABLED, FEATURE_ENV_VARS_ENABLED and
\* FEATURE_TASK_MANAGEMENT_ENABLED can hold when the process starts
FlagValues ==
  {Absent, <<"t", "r", "u", "e">>, <<"T", "r", "u", "e">>, <<"1">>, <<"x">>}
FeatureNames ==
  {"emailEnabled", "environmentVariablesEnabled", "taskManagementEnabled"}

\* serverConfig.features as computed from the environment at load time
serverConfigFeatures(startEnv) ==
  [f \in FeatureNames |-> getBooleanEnvVar(startEnv[f], TRUE)]

\* the names of the tools in the exported arrays, in array order
utilityTools ==
  <<"get-datetime", "generate-uuid", "generate-random", "calculate-hash",
    "sleep", "get-server-status", "get-server-config">>
taskTools ==
  <<"create-task", "list-tasks", "pending-tasks", "complete-task",
    "update-task", "delete-task", "task-stats">>
emailTools ==
  <<"send-email", "send-html-email", "test-email", "send-task-notification">>
envTools ==
  <<"set-env-var", "get-env-var", "list-env-vars", "delete-env-var",
    "export-env-vars">>
Range(s) == {s[i] : i \in DOMAIN s}
ToolNames ==
  Range(utilityTools) \cup Range(taskTools) \cup Range(emailTools)
    \cup Range(envTools)

\* getAllTools: the utility tools, then each category whose flag is set
getAllToolsUnconditional(f) ==
  utilityTools \o taskTools \o emailTools \o envTools
getAllTools(f) ==
  utilityTools
    \o (IF f.taskManagementEnabled THEN taskTools ELSE <<>>)
    \o (IF f.emailEnabled THEN emailTools ELSE <<>>)
    \o (IF f.environmentVariablesEnabled THEN envTools ELSE <<>>)

\* getToolByName: tools.find(tool => tool.name === name)
getToolByName(f, name) ==
  IF name \in Range(getAllTools(f)) THEN name ELSE Undefined

\* names.indexOf(name) for a name of the array: its first position
indexOf(names, name) ==
  CHOOSE i \in DOMAIN names :
    names[i] = name /\ \A j \in 1..(i - 1) : names[j] # name

\* names.filter((name, index) => names.indexOf(name) !== index), as a set
duplicateNamesAdjacent(names) ==
  {names[i] : i \in {i \in DOMAIN names : i > 1 /\ names[i - 1] = names[i]}}
duplicateNames(names) ==
  {names[i] : i \in {i \in DOMAIN names : indexOf(names, names[i]) # i}}

\* validateToolRegistry: valid when the filter leaves no duplicate
validateToolRegistry(f) == duplicateNames(getAllTools(f)) = {}

\* registerTools: server.tool for every tool of getAllTools(); a name that
\* is registered already makes server.tool throw, which is logged
registerTools(f) == Range(getAllTools(f))

\* the environment the process starts with: one variable of the system,
\* and the keys the handlers can be asked about
RawKeys == {<<"a">>, <<"A">>, <<"-">>, <<"x">>, <<"p">>}
EnvKeys == {sanitizeEnvKey(k) : k \in RawKeys}
SystemEnv == [k \in EnvKeys |-> IF k = <<"P">> THEN <<"s">> ELSE Absent]

\* no tool was called in the step just taken
NoCall ==
  [tool |-> Undefined, arg |-> Undefined, escaped |-> FALSE, isError |-> FALSE,
   kind |-> Undefined, out |-> <<>>]

\* the tool state of a process that started with every feature at its
\* default and has served no tool call
ToolsIdle ==
  /\ features = serverConfigFeatures([f \in FeatureNames |-> Absent])
  /\ registry = registerTools(features)
  /\ tasks = <<>>
  /\ environmentVariables = <<>>
  /\ processEnv = SystemEnv
  /\ clock = 0
  /\ result = NoCall

(***************************************************************************)
(* The other programs: the notification stream of the simple server, the   *)
(* notes app (src/nest-notes-app) and the McpService of the agent server   *)
(* (src/agent-server-example). Each is one record.                         *)
(***************************************************************************)
MaxCounter == 101  \* the loop counter of the stream is followed this far
MaxNoteId == 3     \* the ids the repository hands out
MaxClients == 2    \* the Client objects McpService constructs
MaxCallers == 3    \* the overlapping callTool invocations

\* no call of start-notification-stream has been made; the connection of
\* the session is open
StreamIdle ==
  [pc |-> "idle", count |-> 0, counter |-> 0, open |-> TRUE, sent |-> "none"]

\* private notes: Note[] = []; private idCounter = 1; no request served
NoData == [id |-> 0, title |-> Undefined, content |-> Undefined]
NoNoteResponse ==
  [op |-> "none", id |-> 0, page |-> 0, limit |-> 0, data |-> NoData,
   status |-> 0, body |-> <<>>]
NotesIdle == [notes |-> <<>>, idCounter |-> 1, res |-> NoNoteResponse]

\* private client = null; private transport = null; nothing is calling
Clients == 1..MaxClients
Callers == 0..MaxCallers
McpIdle ==
  [client |-> 0, transport |-> 0, made |-> 0,
   conn |-> [c \in Clients |-> "none"],
   pc |-> [k \in Callers |-> "idle"],
   mine |-> [k \in Callers |-> 0],
   used |-> [k \in Callers |-> 0]]

AppsIdle == stream = StreamIdle /\ notes = NotesIdle /\ mcp = McpIdle

\* sessionId && transports[sessionId]: the reuse branch of POST, and negated
\* the guard of GET and DELETE
HasValidSessionAnyToken(sid) == sid # NoToken
HasValidSession(sid) == sid # NoToken /\ transports[sid] # NoTransport

\* !sessionId && isInitializeRequest(req.body)
IsNewInitializationAnyToken(sid, init) == init
IsNewInitializationAnyBody(sid, init) == sid = NoToken
IsNewInitialization(sid, init) == sid = NoToken /\ init

\* server.connect(transport): the shared server of the enhanced server is now
\* connected to t; in the simple server the session's own server is
Connect(t) == IF variant = "simple" THEN connected ELSE t

\* sessionIdGenerator: () => randomUUID(); a UUID is never handed out twice
NewUuidRepeat == IF nextUuid = 0 THEN 1 ELSE nextUuid
NewUuid == nextUuid + 1

\* onsessioninitialized: transports[sessionId] = transport
OnSessionInitializedDrop(t, sid) == transports
OnSessionInitialized(t, sid) == [transports EXCEPT ![sid] = t]

\* transport.onclose: const sid = transport.sessionId;
\*                    if (sid && transports[sid]) delete transports[sid]
\* (map is the session map the callback finds)
OnCloseKeep(map, t) == map
OnCloseLatest(map, t) ==
  IF nextUuid \in Tokens THEN [map EXCEPT ![nextUuid] = NoTransport] ELSE map
OnClose(map, t) ==
  LET sid == sessionId[t] IN
  IF sid # NoToken /\ map[sid] # NoTransport
    THEN [map EXCEPT ![sid] = NoTransport]
    ELSE map

\* history of one run of onclose / delete: entries that left the map
Removed(old, new) == {T \in Tokens : old[T] # NoTransport /\ new[T] = NoTransport}
CountRemovals(old, new) ==
  [T \in Tokens |-> IF T \in Removed(old, new) THEN removals[T] + 1 ELSE removals[T]]
\* an entry left the map that did not map to transport t
Foreign(old, new, t) == \E T \in Removed(old, new) : old[T] # t

\* a suspended handler: its request, the await it is at, its transport
Handler(m, sid, pc, t) == [method |-> m, sid |-> sid, pc |-> pc, transport |-> t]

\* what the client of a request got: the HTTP status (0: no response), the
\* transport a protocol message went out through, whether the handler threw
Response(status, via, threw) == [status |-> status, via |-> via, threw |-> threw]

\* the step answers no request and ends no handler
NoResponse == last' = Response(0, NoTransport, FALSE)

Init ==
  /\ variant \in Variants
  /\ proc = "running"
  /\ transports = [T \in Tokens |-> NoTransport]
  /\ nTransports = 0
  /\ sessionId = [t \in TransportIds |-> NoToken]
  /\ closed = [t \in TransportIds |-> FALSE]
  /\ nextUuid = 0
  /\ connected = NoTransport
  /\ inflight = {}
  /\ last = Response(0, NoTransport, FALSE)
  /\ shut = [pc |-> "idle", keys |-> <<>>, t |-> NoTransport]
  /\ removals = [T \in Tokens |-> 0]
  /\ fault = FALSE
  /\ ToolsIdle
  /\ AppsIdle

\* the server accepts requests until the process has exited
Listening == proc # "exited"

\* the handlers suspended at an await: those of requests, and the SIGINT handler
Suspended == Cardinality(inflight) + (IF proc = "shutting" THEN 1 ELSE 0)

\* handler h suspends at its await
Suspend(h) ==
  /\ h \in inflight \/ Suspended < MaxInFlight
  /\ inflight' = inflight \cup {h}

\* a request is answered without its handler ever suspending
Answer(status) == last' = Response(status, NoTransport, FALSE)

\* the handler h ends: the response status (0: none was written), the
\* transport a protocol response went out through, whether h threw
Finish(h, status, via, threw) ==
  /\ inflight' = inflight \ {h}
  /\ last' = Response(status, via, threw)

\* the handlers that wrap their body in try/catch
HasCatch(method) ==
  \/ method = "POST"
  \/ method = "DELETE" /\ variant = "simple"

\* catch (error) { if (!res.headersSent) res.status(500)... }; a rejection
\* nobody catches leaves the request without a response
StatusAfterThrow(method, headersSent) ==
  IF headersSent THEN 200
  ELSE IF HasCatch(method) THEN 500
  ELSE 0

(***************************************************************************)
(* app.post('/mcp'): the code up to its first await.                       *)
(***************************************************************************)
Post(sid, init) ==
  /\ Listening
  /\ IF HasValidSession(sid)
       THEN \* reuse the existing transport and call its handleRequest
            /\ Suspend(Handler("POST", sid, "handling", transports[sid]))
            /\ NoResponse
            /\ UNCHANGED nTransports
       ELSE IF IsNewInitialization(sid, init)
       THEN \* new StreamableHTTPServerTransport, onclose set, connect called
            /\ nTransports < MaxTransports
            /\ nTransports' = nTransports + 1
            /\ Suspend(Handler("POST", sid, "connect", nTransports + 1))
            /\ NoResponse
       ELSE \* 400 Bad Request: No valid session ID provided
            /\ Answer(400)
            /\ UNCHANGED <<nTransports, inflight>>
  /\ UNCHANGED <<variant, proc, transports, sessionId, closed, nextUuid,
                 connected, shut, removals, fault>>

\* await server.connect(transport) settles and transport.handleRequest is
\* called with the initialization request: the transport draws its session id
\* from sessionIdGenerator and calls onsessioninitialized. Either call may throw
\* first, and the catch answers 500
ConnectDone(h, outcome) ==
  /\ proc # "exited"
  /\ h \in inflight
  /\ h.pc = "connect"
  /\ CASE outcome = "ok" ->
            LET t == h.transport
                sid == NewUuid
            IN /\ sid \in Tokens
               /\ connected' = Connect(t)
               /\ nextUuid' = nextUuid + 1
               /\ sessionId' = [sessionId EXCEPT ![t] = sid]
               /\ transports' = OnSessionInitialized(t, sid)
               /\ inflight' = (inflight \ {h}) \cup {[h EXCEPT !.pc = "respond"]}
               /\ NoResponse
       [] outcome = "connectThrows" ->
            /\ Finish(h, StatusAfterThrow("POST", FALSE), NoTransport, TRUE)
            /\ UNCHANGED <<connected, nextUuid, sessionId, transports>>
       [] outcome = "handleThrows" ->
            /\ connected' = Connect(h.transport)
            /\ Finish(h, StatusAfterThrow("POST", FALSE), NoTransport, TRUE)
            /\ UNCHANGED <<nextUuid, sessionId, transports>>
  /\ UNCHANGED <<variant, proc, nTransports, closed, shut, removals, fault>>

\* the transport a response of the server serving transport t goes out
\* through: the one transport that server is connected to. getServer() gives
\* each session of the simple server a server of its own, connected to t alone;
\* the enhanced server connects every transport to the one shared server
SendVia(t) == IF variant = "simple" THEN t ELSE connected

\* the rest of handleRequest of the initialization request: the server's
\* response goes out through the transport the server is connected to, or
\* handleRequest throws (before or after the response headers were sent)
InitRespond(h, outcome) ==
  /\ proc # "exited"
  /\ h \in inflight
  /\ h.pc = "respond"
  /\ CASE outcome = "ok" ->
            Finish(h, 200, SendVia(h.transport), FALSE)
       [] outcome = "throw" ->
            Finish(h, StatusAfterThrow("POST", FALSE), NoTransport, TRUE)
       [] outcome = "throwSent" ->
            Finish(h, StatusAfterThrow("POST", TRUE), NoTransport, TRUE)
  /\ UNCHANGED <<variant, proc, transports, nTransports, sessionId, closed,
                 nextUuid, connected, shut, removals, fault>>

(***************************************************************************)
(* app.get('/mcp') and app.delete('/mcp'): the code up to the await.       *)
(***************************************************************************)
Get(sid) ==
  /\ Listening
  /\ IF ~HasValidSession(sid)
       THEN /\ Answer(400)
            /\ UNCHANGED inflight
       ELSE /\ Suspend(Handler("GET", sid, "handling", transports[sid]))
            /\ NoResponse
  /\ UNCHANGED <<variant, proc, transports, nTransports, sessionId, closed,
                 nextUuid, connected, shut, removals, fault>>

Delete(sid) ==
  /\ Listening
  /\ IF ~HasValidSession(sid)
       THEN /\ Answer(400)
            /\ UNCHANGED inflight
       ELSE /\ Suspend(Handler("DELETE", sid, "closing", transports[sid]))
            /\ NoResponse
  /\ UNCHANGED <<variant, proc, transports, nTransports, sessionId, closed,
                 nextUuid, connected, shut, removals, fault>>

\* await transport.handleRequest(...) of a POST or GET on an existing session settles
HandleDone(h, outcome) ==
  /\ proc # "exited"
  /\ h \in inflight
  /\ h.pc = "handling"
  /\ LET t == h.transport
         m == h.method
     IN CASE outcome = "ok" ->
               Finish(h, 200, IF m = "POST" THEN SendVia(t) ELSE t, FALSE)
          [] outcome = "throw" ->
               Finish(h, StatusAfterThrow(m, FALSE), NoTransport, TRUE)
          [] outcome = "throwSent" ->
               Finish(h, StatusAfterThrow(m, TRUE), NoTransport, TRUE)
  /\ UNCHANGED <<variant, proc, transports, nTransports, sessionId, closed,
                 nextUuid, connected, shut, removals, fault>>

\* transport.close(): runs the onclose callback unless it throws first
CloseEffect(t, outcome) ==
  IF outcome = "throwBefore"
    THEN UNCHANGED <<transports, closed, removals, fault>>
    ELSE /\ transports' = OnClose(transports, t)
         /\ closed' = [closed EXCEPT ![t] = TRUE]
         /\ removals' = CountRemovals(transports, OnClose(transports, t))
         /\ fault' = (fault \/ Foreign(transports, OnClose(transports, t), t))

\* await transport.handleRequest(req, res) of a DELETE settles: the transport
\* closes itself and answers, or throws
DeleteDone(h, outcome) ==
  /\ proc # "exited"
  /\ h \in inflight
  /\ h.pc = "closing"
  /\ CloseEffect(h.transport, outcome)
  /\ IF outcome = "ok"
       THEN Finish(h, 200, h.transport, FALSE)
       ELSE Finish(h, StatusAfterThrow("DELETE", FALSE), NoTransport, TRUE)
  /\ UNCHANGED <<variant, proc, nTransports, sessionId, nextUuid, connected, shut>>

\* the underlying connection of an established session closes on its own;
\* a transport whose initialization failed is closed without a session id
TransportClose(t) ==
  /\ proc # "exited"
  /\ t \in Made
  /\ ~closed[t]
  /\ \/ sessionId[t] # NoToken
     \/ \A h \in inflight : h.transport # t
  /\ CloseEffect(t, "ok")
  /\ UNCHANGED <<variant, proc, nTransports, sessionId, nextUuid, connected,
                 inflight, shut>>
  /\ NoResponse

(***************************************************************************)
(* process.on('SIGINT'): for (const sessionId in transports) { try {       *)
(*   await transports[sessionId].close(); delete transports[sessionId]     *)
(* } catch {...} }  process.exit(0)                                        *)
(* The handler suspends only in the await, once per key it visits: shut    *)
(* holds the keys left (the one being closed first) and the transport      *)
(* whose close() it awaits.                                                *)
(***************************************************************************)
\* the keys for..in enumerates: those present when the loop starts, in
\* insertion order (tokens are numbered in the order they were registered)
RECURSIVE KeysFrom(_)
KeysFrom(T) ==
  IF T > MaxTransports THEN <<>>
  ELSE (IF transports[T] # NoTransport THEN <<T>> ELSE <<>>) \o KeysFrom(T + 1)

\* for..in skips a key deleted before it is visited
RECURSIVE SkipDeleted(_, _)
SkipDeleted(map, keys) ==
  IF keys = <<>> THEN <<>>
  ELSE IF map[Head(keys)] # NoTransport THEN keys
  ELSE SkipDeleted(map, Tail(keys))

\* the loop runs on with the session map `map` and `keys` left: it calls
\* close() on the transport of the next key and suspends in the await, or
\* finds no key left and ends the process and with it every handler
LoopFrom(map, keys) ==
  LET todo == SkipDeleted(map, keys) IN
  IF todo = <<>>
    THEN /\ proc' = "exited"
         /\ inflight' = {}
         /\ shut' = [pc |-> "done", keys |-> <<>>, t |-> NoTransport]
    ELSE /\ proc' = "shutting"
         /\ inflight' = inflight
         /\ shut' = [pc |-> "await", keys |-> todo, t |-> map[Head(todo)]]

\* SIGINT arrives. The simple server runs its handler up to the first await;
\* the enhanced server installs none, so the process ends at once with the
\* map as it is
Sigint ==
  /\ proc = "running"
  /\ IF variant = "simple"
       THEN /\ Suspended < MaxInFlight
            /\ LoopFrom(transports, KeysFrom(1))
       ELSE /\ proc' = "exited"
            /\ inflight' = {}
            /\ UNCHANGED shut
  /\ NoResponse
  /\ UNCHANGED <<variant, transports, nTransports, sessionId, closed, nextUuid,
                 connected, removals, fault>>

\* the await settles: close() has run the onclose callback unless it threw
\* first; delete transports[sessionId] follows if close() resolved, the catch
\* if it rejected, and the loop runs on to its next await or to the end
ShutdownResume(outcome) ==
  /\ proc = "shutting"
  /\ shut.pc = "await"
  /\ LET t == shut.t
         afterClose == IF outcome = "throwBefore" THEN transports
                       ELSE OnClose(transports, t)
         afterDelete == IF outcome = "ok"
                          THEN [afterClose EXCEPT ![Head(shut.keys)] = NoTransport]
                          ELSE afterClose
     IN /\ transports' = afterDelete
        /\ closed' = IF outcome = "throwBefore" THEN closed
                     ELSE [closed EXCEPT ![t] = TRUE]
        /\ removals' = CountRemovals(transports, afterDelete)
        /\ fault' = (fault \/ Foreign(transports, afterDelete, t))
        /\ LoopFrom(afterDelete, Tail(shut.keys))
  /\ NoResponse
  /\ UNCHANGED <<variant, nTransports, sessionId, nextUuid, connected>>

Headers == Tokens \cup {NoToken}
HandleOutcomes == {"ok", "throw", "throwSent"}
ConnectOutcomes == {"ok", "connectThrows", "handleThrows"}

Next ==
  \/ \E sid \in Headers, init \in BOOLEAN : Post(sid, init) /\ UNCHANGED <<toolVars, appVars>>
  \/ \E h \in inflight, o \in ConnectOutcomes : ConnectDone(h, o) /\ UNCHANGED <<toolVars, appVars>>
  \/ \E h \in inflight, o \in HandleOutcomes : InitRespond(h, o) /\ UNCHANGED <<toolVars, appVars>>
  \/ \E sid \in Headers : Get(sid) /\ UNCHANGED <<toolVars, appVars>>
  \/ \E sid \in Headers : Delete(sid) /\ UNCHANGED <<toolVars, appVars>>
  \/ \E h \in inflight, o \in HandleOutcomes : HandleDone(h, o) /\ UNCHANGED <<toolVars, appVars>>
  \/ \E h \in inflight, o \in CloseOutcomes : DeleteDone(h, o) /\ UNCHANGED <<toolVars, appVars>>
  \/ \E t \in TransportIds : TransportClose(t) /\ UNCHANGED <<toolVars, appVars>>
  \/ Sigint /\ UNCHANGED <<toolVars, appVars>>
  \/ \E o \in CloseOutcomes : ShutdownResume(o) /\ UNCHANGED <<toolVars, appVars>>

Spec == Init /\ [][Next]_vars

\* the server as long as no SIGINT is delivered: the request handlers and the
\* transport callbacks alone
NextServing ==
  \/ \E sid \in Headers, init \in BOOLEAN : Post(sid, init) /\ UNCHANGED <<toolVars, appVars>>
  \/ \E h \in inflight, o \in ConnectOutcomes : ConnectDone(h, o) /\ UNCHANGED <<toolVars, appVars>>
  \/ \E h \in inflight, o \in HandleOutcomes : InitRespond(h, o) /\ UNCHANGED <<toolVars, appVars>>
  \/ \E sid \in Headers : Get(sid) /\ UNCHANGED <<toolVars, appVars>>
  \/ \E sid \in Headers : Delete(sid) /\ UNCHANGED <<toolVars, appVars>>
  \/ \E h \in inflight, o \in HandleOutcomes : HandleDone(h, o) /\ UNCHANGED <<toolVars, appVars>>
  \/ \E h \in inflight, o \in CloseOutcomes : DeleteDone(h, o) /\ UNCHANGED <<toolVars, appVars>>
  \/ \E t \in TransportIds : TransportClose(t) /\ UNCHANGED <<toolVars, appVars>>

Serving == Init /\ [][NextServing]_vars

(***************************************************************************)
(* The tool handlers of the enhanced server                                *)
(*                                                                         *)
(* A handler runs from the dispatch of the call to the envelope it returns;*)
(* the envelope is [isError, kind, out]: kind stands for the fixed words of*)
(* the message, out for the values set into it.                            *)
(***************************************************************************)
createSuccessResult(kind, out) ==
  [escaped |-> FALSE, isError |-> FALSE, kind |-> kind, out |-> out]
createErrorResult(kind, out) ==
  [escaped |-> FALSE, isError |-> TRUE, kind |-> kind, out |-> out]

\* the call just dispatched with what it gave the client
Called(tool, arg, ret) ==
  [tool |-> tool, arg |-> arg, escaped |-> ret.escaped,
   isError |-> ret.isError, kind |-> ret.kind, out |-> ret.out]

\* the date shown by toISOString / formatDate
formatDate(date) == date

\* formatTask: the fields of a task that its display shows
formatTask(task) ==
  [id |-> task.id, title |-> task.title, description |-> task.description,
   completed |-> task.completed,
   priority |-> IF task.priority = Undefined THEN "medium" ELSE task.priority,
   tags |-> task.tags,
   created |-> formatDate(task.createdAt),
   updated |-> IF task.updatedAt = NoDate THEN NoDate
               ELSE formatDate(task.updatedAt)]

\* generateId draws two random numbers; nothing compares the id with the
\* keys of the map
Ids == 1..MaxTasks

CreateParams ==
  {[title |-> <<"a">>, description |-> <<"d">>, priority |-> Undefined,
    tags |-> Absent],
   [title |-> <<"a">>, description |-> <<"d">>, priority |-> "high",
    tags |-> <<"x", ",", " ", ",", "a">>]}
UpdateParams ==
  {[title |-> <<"b">>, description |-> Absent, priority |-> "low",
    tags |-> <<>>]}
ListParams ==
  [status : {Undefined, "pending", "completed"},
   priority : {Undefined, "high"},
   tag : {Absent, <<"X">>}]

\* create-task: the task built from the parameters
newTask(id, params, now) ==
  [id |-> id, title |-> params.title, description |-> params.description,
   completed |-> FALSE, createdAt |-> now, updatedAt |-> NoDate,
   priority |-> IF params.priority = Undefined THEN "medium"
                ELSE params.priority,
   tags |-> IF params.tags = Absent \/ params.tags = <<>> THEN <<>>
            ELSE parseTags(params.tags)]

\* the comparison both listings sort by: a negative number puts a first
priorityOrder(priority) ==
  CASE priority = "high" -> 3 [] priority = "medium" -> 2
    [] priority = "low" -> 1 [] OTHER -> 2
compareByPriority(a, b) ==
  priorityOrder(b.priority) - priorityOrder(a.priority)
compareTasks(a, b) ==
  IF priorityOrder(a.priority) # priorityOrder(b.priority)
  THEN priorityOrder(b.priority) - priorityOrder(a.priority)
  ELSE b.createdAt - a.createdAt

\* Array.prototype.sort with compareTasks: stable
RECURSIVE insertTask(_, _)
insertTask(sorted, x) ==
  IF sorted = <<>> THEN <<x>>
  ELSE IF compareTasks(x, Head(sorted)) < 0 THEN <<x>> \o sorted
  ELSE <<Head(sorted)>> \o insertTask(Tail(sorted), x)
RECURSIVE sortTasks(_)
sortTasks(s) ==
  IF s = <<>> THEN s
  ELSE insertTask(sortTasks(SubSeq(s, 1, Len(s) - 1)), s[Len(s)])

\* task => !task.completed
isPendingAny(task) == TRUE
isPending(task) == ~task.completed

\* list-tasks: the filters, then the sort, of a copy of the values
filterTasks(values, params) ==
  LET status == IF params.status = Undefined THEN "all" ELSE params.status
      byStatus == IF status = "pending"
                  THEN SelectSeq(values, LAMBDA t : isPending(t))
                  ELSE IF status = "completed"
                  THEN SelectSeq(values, LAMBDA t : t.completed)
                  ELSE values
      byPriority == IF params.priority # Undefined
                    THEN SelectSeq(byStatus,
                                   LAMBDA t : t.priority = params.priority)
                    ELSE byStatus
  IN IF params.tag # Absent /\ params.tag # <<>>
     THEN SelectSeq(byPriority,
            LAMBDA t : \E i \in DOMAIN t.tags :
              includes(toLowerCase(t.tags[i]), toLowerCase(params.tag)))
     ELSE byPriority
listTasks(m, params) ==
  LET filteredTasks == filterTasks(MapValues(m), params)
  IN IF Len(filteredTasks) = 0
     THEN createSuccessResult("no-tasks-found", <<>>)
     ELSE LET sorted == sortTasks(filteredTasks)
          IN createSuccessResult("tasks",
               [i \in DOMAIN sorted |-> formatTask(sorted[i])])

\* pending-tasks
pendingTasks(m) ==
  LET pending == SelectSeq(MapValues(m), LAMBDA t : isPending(t))
  IN IF Len(pending) = 0
     THEN createSuccessResult("no-pending-tasks", <<>>)
     ELSE LET sorted == sortTasks(pending)
          IN createSuccessResult("pending-tasks",
               [i \in DOMAIN sorted |-> formatTask(sorted[i])])

\* list-tasks of the legacy server: the status filter alone, no sort
legacyListTasks(m, status) ==
  LET values == MapValues(m)
      filteredTasks ==
        IF status = "pending"
        THEN SelectSeq(values, LAMBDA t : isPending(t))
        ELSE IF status = "completed"
        THEN SelectSeq(values, LAMBDA t : t.completed)
        ELSE values
  IN IF Len(filteredTasks) = 0
     THEN createSuccessResult("no-tasks-found", <<>>)
     ELSE createSuccessResult("tasks",
            [i \in DOMAIN filteredTasks |-> formatTask(filteredTasks[i])])

\* what a listing leaves in the map: it sorts the array Array.from made
mapAfterListingInPlace(m) ==
  LET sorted == sortTasks(MapValues(m))
  IN [i \in DOMAIN sorted |-> [k |-> sorted[i].id, v |-> sorted[i]]]
mapAfterListing(m) == m

\* task-stats: the counts, and Math.round of the percentages
percent(part, total) ==
  IF total > 0 THEN (200 * part + total) \div (2 * total) ELSE 0
taskStats(m) ==
  LET allTasks == MapValues(m)
      completed == Len(SelectSeq(allTasks, LAMBDA t : t.completed))
      pending == Len(SelectSeq(allTasks, LAMBDA t : isPending(t)))
      allTags == UNION {Range(allTasks[i].tags) : i \in DOMAIN allTasks}
  IN createSuccessResult("stats",
       <<[total |-> Len(allTasks),
          completed |-> completed,
          completedPercent |-> percent(completed, Len(allTasks)),
          pending |-> pending,
          pendingPercent |-> percent(pending, Len(allTasks)),
          high |-> Len(SelectSeq(allTasks, LAMBDA t : t.priority = "high")),
          medium |-> Len(SelectSeq(allTasks, LAMBDA t : t.priority = "medium")),
          low |-> Len(SelectSeq(allTasks, LAMBDA t : t.priority = "low")),
          uniqueTags |-> Cardinality(allTags)]>>)

\* a map is in use while it holds an entry; a tool is called while its map
\* is in use or may come into use
BusyMaps ==
  (IF tasks # <<>> THEN {"tasks"} ELSE {})
    \cup (IF environmentVariables # <<>> THEN {"environmentVariables"} ELSE {})
InUse(map) == Cardinality(BusyMaps \cup {map}) <= MaxBusyMaps

TaskHandler(tool) == tool \in registry /\ InUse("tasks")

\* the handlers leave the session shim, the features and the registry alone
ToolFrame == UNCHANGED <<sessionVars, appVars, features, registry, clock>>

CreateTask(params, id) ==
  /\ TaskHandler("create-task")
  /\ LET task == newTask(id, params, clock)
     IN /\ tasks' = MapSet(tasks, id, task)
        /\ result' = Called("create-task", params,
                            createSuccessResult("created", <<formatTask(task)>>))
  /\ ToolFrame
  /\ UNCHANGED <<environmentVariables, processEnv>>

ListTasks(params) ==
  /\ TaskHandler("list-tasks")
  /\ result' = Called("list-tasks", params, listTasks(tasks, params))
  /\ tasks' = mapAfterListing(tasks)
  /\ ToolFrame
  /\ UNCHANGED <<environmentVariables, processEnv>>

PendingTasks ==
  /\ TaskHandler("pending-tasks")
  /\ result' = Called("pending-tasks", Undefined, pendingTasks(tasks))
  /\ tasks' = mapAfterListing(tasks)
  /\ ToolFrame
  /\ UNCHANGED <<environmentVariables, processEnv>>

\* complete-task: task.completed = true; task.updatedAt = new Date()
completeTask(task, now) ==
  [task EXCEPT !.completed = TRUE, !.updatedAt = now]
CompleteTask(id) ==
  /\ TaskHandler("complete-task")
  /\ IF ~MapHas(tasks, id)
     THEN /\ result' = Called("complete-task", id,
                              createErrorResult("not-found", <<id>>))
          /\ UNCHANGED tasks
     ELSE IF MapGet(tasks, id).completed
     THEN /\ result' = Called("complete-task", id,
                              createSuccessResult("already-completed", <<id>>))
          /\ UNCHANGED tasks
     ELSE LET after == completeTask(MapGet(tasks, id), clock)
          IN /\ tasks' = MapSet(tasks, id, after)
             /\ result' = Called("complete-task", id,
                  createSuccessResult("completed", <<formatTask(after)>>))
  /\ ToolFrame
  /\ UNCHANGED <<environmentVariables, processEnv>>

\* update-task: the fields given replace the task's, and it is stamped
updateTaskReopening(task, params, now) ==
  [task EXCEPT
     !.title = IF params.title # Absent THEN params.title ELSE @,
     !.completed = FALSE,
     !.updatedAt = now]
updateTask(task, params, now) ==
  [task EXCEPT
     !.title = IF params.title # Absent THEN params.title ELSE @,
     !.description = IF params.description # Absent THEN params.description
                     ELSE @,
     !.priority = IF params.priority # Undefined THEN params.priority ELSE @,
     !.tags = IF params.tags # Absent THEN parseTags(params.tags) ELSE @,
     !.updatedAt = now]
UpdateTask(id, params) ==
  /\ TaskHandler("update-task")
  /\ IF ~MapHas(tasks, id)
     THEN /\ result' = Called("update-task", [id |-> id, fields |-> params],
                              createErrorResult("not-found", <<id>>))
          /\ UNCHANGED tasks
     ELSE LET after == updateTask(MapGet(tasks, id), params, clock)
          IN /\ tasks' = MapSet(tasks, id, after)
             /\ result' = Called("update-task", [id |-> id, fields |-> params],
                  createSuccessResult("updated", <<formatTask(after)>>))
  /\ ToolFrame
  /\ UNCHANGED <<environmentVariables, processEnv>>

DeleteTask(id) ==
  /\ TaskHandler("delete-task")
  /\ IF ~MapHas(tasks, id)
     THEN /\ result' = Called("delete-task", id,
                              createErrorResult("not-found", <<id>>))
          /\ UNCHANGED tasks
     ELSE /\ tasks' = MapDelete(tasks, id)
          /\ result' = Called("delete-task", id,
               createSuccessResult("deleted",
                                   <<formatTask(MapGet(tasks, id))>>))
  /\ ToolFrame
  /\ UNCHANGED <<environmentVariables, processEnv>>

TaskStats ==
  /\ TaskHandler("task-stats")
  /\ result' = Called("task-stats", Undefined, taskStats(tasks))
  /\ UNCHANGED tasks
  /\ ToolFrame
  /\ UNCHANGED <<environmentVariables, processEnv>>

\* list-tasks of the legacy server, whose map holds tasks of the same shape
LegacyListTasks(status) ==
  /\ TaskHandler("list-tasks")
  /\ result' = Called("legacy-list-tasks", status,
                      legacyListTasks(tasks, status))
  /\ UNCHANGED tasks
  /\ ToolFrame
  /\ UNCHANGED <<environmentVariables, processEnv>>

\* complete-task of the legacy server, as a tool, through /api/mcp/execute
\* and as PATCH /api/tasks/:id/complete: the same three branches, and no
\* update time in the legacy task
LegacyRoutes == {"legacy-complete-task", "execute-complete-task",
                 "rest-complete-task"}
legacyCompleteTask(m, id, route) ==
  IF ~MapHas(m, id)
  THEN [escaped |-> FALSE, isError |-> route = "rest-complete-task",
        kind |-> "not-found", out |-> <<id>>]
  ELSE IF MapGet(m, id).completed
  THEN [escaped |-> FALSE, isError |-> route = "rest-complete-task",
        kind |-> "already-completed", out |-> <<id>>]
  ELSE createSuccessResult("completed",
         <<formatTask([MapGet(m, id) EXCEPT !.completed = TRUE])>>)
LegacyCompleteTask(route, id) ==
  /\ TaskHandler("complete-task")
  /\ result' = Called(route, id, legacyCompleteTask(tasks, id, route))
  /\ tasks' = IF MapHas(tasks, id) /\ ~MapGet(tasks, id).completed
              THEN MapSet(tasks, id, [MapGet(tasks, id) EXCEPT !.completed = TRUE])
              ELSE tasks
  /\ ToolFrame
  /\ UNCHANGED <<environmentVariables, processEnv>>

\* registerTools at module load.  extra is what a build adds to the exported
\* arrays (nothing in the repository's own build); when validation fails the
\* process exits before the first server.tool
ExtraNames == {"sleep", "create-task", "set-env-var", "plugin-tool"}
Extras ==
  {<<>>} \cup {<<a>> : a \in ExtraNames}
         \cup {<<a, b>> : a \in ExtraNames, b \in ExtraNames}
RegisterTools(extra) ==
  /\ proc = "running"
  /\ registry = {}
  /\ LET tools == getAllTools(features) \o extra
     IN IF duplicateNames(tools) # {}
        THEN /\ proc' = "exited"
             /\ registry' = registry
             /\ result' = Called("registerTools", extra,
                   createErrorResult("validation-failed",
                                     <<duplicateNames(tools)>>))
        ELSE /\ proc' = proc
             /\ registry' = Range(tools)
             /\ result' = Called("registerTools", extra,
                   createSuccessResult("registered", <<Len(tools)>>))
  /\ UNCHANGED <<variant, transports, nTransports, sessionId, closed,
                 nextUuid, connected, inflight, last, shut, removals, fault>>
  /\ UNCHANGED <<features, tasks, environmentVariables, processEnv, clock>>
  /\ UNCHANGED appVars

(***************************************************************************)
(* Environment variable tools. An optional boolean parameter is FALSE when *)
(* it is false or left out: the handlers test it for truth only.           *)
(***************************************************************************)
Values == {<<"v">>, <<"w">>}
SetParams ==
  {[key |-> <<"a">>, value |-> <<"v">>, description |-> Absent,
    isSecret |-> FALSE],
   [key |-> <<"A">>, value |-> <<"w">>, description |-> <<"p">>,
    isSecret |-> TRUE],
   [key |-> <<"x">>, value |-> <<"v">>, description |-> Absent,
    isSecret |-> TRUE],
   [key |-> <<"-">>, value |-> <<"v">>, description |-> Absent,
    isSecret |-> FALSE]}
GetParams == [key : RawKeys, showSecret : BOOLEAN]
ListEnvParams ==
  [includeSecrets : BOOLEAN, showValues : BOOLEAN, showSecrets : BOOLEAN,
   filter : {Absent, <<"P">>}]
ExportParams == [includeSecrets : BOOLEAN, includeComments : BOOLEAN]

Hidden == <<"***HIDDEN***">>
ValueHidden == <<"[Value hidden]">>
NoDescription == <<"No description">>

\* the value a display shows for a variable that is a secret or not
shownValueUnmasked(envVar, reveal) == envVar.value
shownValueOf(envVar, reveal) ==
  IF envVar.isSecret /\ ~reveal THEN Hidden ELSE envVar.value

describe(description) ==
  IF description = Absent \/ description = <<>> THEN NoDescription
  ELSE description

envDisabled ==
  createErrorResult("feature-disabled", <<>>)

\* set-env-var: the record stored, and the envelope
newEnvVarRawKey(m, sanitizedKey, params, now) ==
  [key |-> params.key, value |-> params.value,
   description |-> params.description, isSecret |-> params.isSecret,
   createdAt |-> IF MapHas(m, sanitizedKey)
                 THEN MapGet(m, sanitizedKey).createdAt ELSE now,
   updatedAt |-> IF MapHas(m, sanitizedKey) THEN now ELSE NoDate]
newEnvVar(m, sanitizedKey, params, now) ==
  [key |-> sanitizedKey, value |-> params.value,
   description |-> params.description, isSecret |-> params.isSecret,
   createdAt |-> IF MapHas(m, sanitizedKey)
                 THEN MapGet(m, sanitizedKey).createdAt ELSE now,
   updatedAt |-> IF MapHas(m, sanitizedKey) THEN now ELSE NoDate]
setEnvVar(m, params, now) ==
  LET sanitizedKey == sanitizeEnvKey(params.key)
      envVar == newEnvVar(m, sanitizedKey, params, now)
  IN IF ~isValidEnvKey(sanitizedKey)
     THEN createErrorResult("invalid-key", <<params.key>>)
     ELSE createSuccessResult(
            IF MapHas(m, sanitizedKey) THEN "updated" ELSE "created",
            <<[key |-> sanitizedKey,
               value |-> shownValueOf(envVar, FALSE),
               description |-> describe(envVar.description),
               secret |-> envVar.isSecret,
               date |-> formatDate(now)]>>)

\* get-env-var: the stored record, else the variable of the process
getEnvVar(m, env, params) ==
  LET sanitizedKey == sanitizeEnvKey(params.key)
      actualValue == env[sanitizedKey]
  IN IF ~MapHas(m, sanitizedKey) /\ (actualValue = Absent \/ actualValue = <<>>)
     THEN createErrorResult("not-found", <<sanitizedKey>>)
     ELSE IF MapHas(m, sanitizedKey)
     THEN LET envVar == MapGet(m, sanitizedKey)
          IN createSuccessResult("details",
               <<[key |-> envVar.key,
                  value |-> shownValueOf(envVar, params.showSecret),
                  description |-> describe(envVar.description),
                  secret |-> envVar.isSecret,
                  created |-> formatDate(envVar.createdAt),
                  updated |-> IF envVar.updatedAt = NoDate THEN NoDate
                              ELSE formatDate(envVar.updatedAt),
                  hint |-> envVar.isSecret /\ ~params.showSecret]>>)
     ELSE createSuccessResult("system",
            <<[key |-> sanitizedKey, value |-> actualValue]>>)

\* a.key.localeCompare(b.key) < 0: the keys are compared character by
\* character, "_" before the digits before the letters
charRank(c) ==
  CASE c = "_" -> 0 [] c = "1" -> 1 [] c = "A" -> 2 [] c = "P" -> 3
    [] c = "X" -> 4 [] OTHER -> 5
RECURSIVE keyBefore(_, _)
keyBefore(a, b) ==
  IF b = <<>> THEN FALSE
  ELSE IF a = <<>> THEN TRUE
  ELSE IF Head(a) # Head(b) THEN charRank(Head(a)) < charRank(Head(b))
  ELSE keyBefore(Tail(a), Tail(b))

\* Array.prototype.sort by key
RECURSIVE insertEnvVar(_, _)
insertEnvVar(sorted, x) ==
  IF sorted = <<>> THEN <<x>>
  ELSE IF keyBefore(x.key, Head(sorted).key) THEN <<x>> \o sorted
  ELSE <<Head(sorted)>> \o insertEnvVar(Tail(sorted), x)
RECURSIVE sortEnvVars(_)
sortEnvVars(s) ==
  IF s = <<>> THEN s
  ELSE insertEnvVar(sortEnvVars(SubSeq(s, 1, Len(s) - 1)), s[Len(s)])

secretCount(m) == Len(SelectSeq(MapValues(m), LAMBDA v : v.isSecret))

\* list-env-vars
listEnvVars(m, params) ==
  LET all == MapValues(m)
      hasFilter == params.filter # Absent /\ params.filter # <<>>
      filterLower == toLowerCase(params.filter)
      matching ==
        IF hasFilter
        THEN SelectSeq(all, LAMBDA v :
               \/ includes(toLowerCase(v.key), filterLower)
               \/ /\ v.description # Absent
                  /\ v.description # <<>>
                  /\ includes(toLowerCase(v.description), filterLower))
        ELSE all
      envVars == IF ~params.includeSecrets
                 THEN SelectSeq(matching, LAMBDA v : ~v.isSecret)
                 ELSE matching
      sorted == sortEnvVars(envVars)
  IN IF Len(envVars) = 0
     THEN createSuccessResult("no-variables", <<>>)
     ELSE createSuccessResult("variables",
            [i \in DOMAIN sorted |->
               [key |-> sorted[i].key,
                secret |-> sorted[i].isSecret,
                value |-> IF params.showValues
                          THEN shownValueOf(sorted[i], params.showSecrets)
                          ELSE ValueHidden,
                description |-> describe(sorted[i].description),
                created |-> formatDate(sorted[i].createdAt),
                updated |-> IF sorted[i].updatedAt = NoDate THEN NoDate
                            ELSE formatDate(sorted[i].updatedAt),
                shown |-> Len(envVars),
                secretsHidden |-> IF ~params.includeSecrets
                                  THEN secretCount(m) ELSE 0]])

\* export-env-vars: key=value for every variable that is exported
exportEnvVars(m, params, now) ==
  LET all == MapValues(m)
      envVars == IF ~params.includeSecrets
                 THEN SelectSeq(all, LAMBDA v : ~v.isSecret)
                 ELSE all
      sorted == sortEnvVars(envVars)
  IN IF Len(envVars) = 0
     THEN createSuccessResult("nothing-to-export", <<>>)
     ELSE createSuccessResult("export",
            [i \in DOMAIN sorted |->
               [generated |-> formatDate(now),
                comment |-> IF params.includeComments
                               /\ sorted[i].description # Absent
                               /\ sorted[i].description # <<>>
                            THEN sorted[i].description ELSE Absent,
                warning |-> sorted[i].isSecret /\ params.includeSecrets,
                key |-> sorted[i].key,
                value |-> sorted[i].value,
                total |-> Len(envVars),
                secretsExcluded |-> IF ~params.includeSecrets
                                    THEN secretCount(m) ELSE 0]])

EnvHandler(tool) == tool \in registry /\ InUse("environmentVariables")

SetEnvVar(params) ==
  /\ EnvHandler("set-env-var")
  /\ LET sanitizedKey == sanitizeEnvKey(params.key)
     IN IF ~features.environmentVariablesEnabled
        THEN /\ result' = Called("set-env-var", params, envDisabled)
             /\ UNCHANGED <<environmentVariables, processEnv>>
        ELSE /\ result' = Called("set-env-var", params,
                                 setEnvVar(environmentVariables, params, clock))
             /\ IF isValidEnvKey(sanitizedKey)
                THEN /\ environmentVariables' =
                          MapSet(environmentVariables, sanitizedKey,
                                 newEnvVar(environmentVariables, sanitizedKey,
                                           params, clock))
                     /\ processEnv' =
                          [processEnv EXCEPT ![sanitizedKey] = params.value]
                ELSE UNCHANGED <<environmentVariables, processEnv>>
  /\ ToolFrame
  /\ UNCHANGED tasks

GetEnvVar(params) ==
  /\ EnvHandler("get-env-var")
  /\ result' = Called("get-env-var", params,
       IF ~features.environmentVariablesEnabled THEN envDisabled
       ELSE getEnvVar(environmentVariables, processEnv, params))
  /\ ToolFrame
  /\ UNCHANGED <<tasks, environmentVariables, processEnv>>

ListEnvVars(params) ==
  /\ EnvHandler("list-env-vars")
  /\ result' = Called("list-env-vars", params,
       IF ~features.environmentVariablesEnabled THEN envDisabled
       ELSE listEnvVars(environmentVariables, params))
  /\ ToolFrame
  /\ UNCHANGED <<tasks, environmentVariables, processEnv>>

DeleteEnvVar(key) ==
  /\ EnvHandler("delete-env-var")
  /\ LET sanitizedKey == sanitizeEnvKey(key)
     IN IF ~features.environmentVariablesEnabled
        THEN /\ result' = Called("delete-env-var", key, envDisabled)
             /\ UNCHANGED <<environmentVariables, processEnv>>
        ELSE IF ~MapHas(environmentVariables, sanitizedKey)
        THEN /\ result' = Called("delete-env-var", key,
                             createErrorResult("not-found", <<sanitizedKey>>))
             /\ UNCHANGED <<environmentVariables, processEnv>>
        ELSE /\ environmentVariables' =
                  MapDelete(environmentVariables, sanitizedKey)
             /\ processEnv' = [processEnv EXCEPT ![sanitizedKey] = Absent]
             /\ result' = Called("delete-env-var", key,
                  createSuccessResult("deleted",
                    <<[key |-> sanitizedKey,
                       description |->
                         describe(MapGet(environmentVariables,
                                         sanitizedKey).description),
                       secret |-> MapGet(environmentVariables,
                                         sanitizedKey).isSecret]>>))
  /\ ToolFrame
  /\ UNCHANGED tasks

ExportEnvVars(params) ==
  /\ EnvHandler("export-env-vars")
  /\ result' = Called("export-env-vars", params,
       IF ~features.environmentVariablesEnabled THEN envDisabled
       ELSE exportEnvVars(environmentVariables, params, clock))
  /\ ToolFrame
  /\ UNCHANGED <<tasks, environmentVariables, processEnv>>

(***************************************************************************)
(* Email tools. Whether the SMTP settings are complete, and what becomes   *)
(* of a delivery, is outside the program: each call meets one of the       *)
(* outcomes.                                                               *)
(***************************************************************************)
Deliveries == {"noTransporter", "rejected", "sent"}
Recipients ==
  {<<"a", "@", "x", ".", "p">>, <<"a", "@", "x", ".", "p", ",", "a">>, <<" ">>}
Notified == {<<"a", "@", "x", ".", "p">>, <<"a", "@">>}
Notifications == {"completed", "deleted"}

\* value.split(',').map(item => item.trim()).filter(item => item.length > 0)
parseCommaSeparated(value) ==
  LET pieces == split(value)
      trimmed == [i \in DOMAIN pieces |-> trim(pieces[i])]
  IN SelectSeq(trimmed, LAMBDA item : Len(item) > 0)

\* /^[^\s@]+@[^\s@]+\.[^\s@]+$/
isValidEmail(email) ==
  \E i, j \in DOMAIN email :
    /\ email[i] = "@" /\ 1 < i
    /\ email[j] = "." /\ i + 1 < j /\ j < Len(email)
    /\ \A k \in DOMAIN email : k # i => email[k] \notin {"@", " "}

\* EmailService.sendEmail: a missing transporter and a delivery that throws
\* both come back as { success: false }
sendEmail(delivery) ==
  [success |-> delivery = "sent", thrown |-> FALSE]
\* EmailService.testConnection likewise gives false
testConnection(delivery) == delivery = "sent"

\* the catch at the end of every handler
handlerRethrows(message) ==
  [escaped |-> TRUE, isError |-> TRUE, kind |-> "thrown", out |-> message]
handlerCatch(message) == createErrorResult("failed", message)

emailDisabled == createErrorResult("feature-disabled", <<>>)

\* send-email and send-html-email
sendEmailTool(to, configured, delivery) ==
  LET toEmails == parseCommaSeparated(to)
      invalidEmails == SelectSeq(toEmails, LAMBDA e : ~isValidEmail(e))
  IN IF Len(invalidEmails) > 0
     THEN createErrorResult("invalid-email", invalidEmails)
     ELSE IF Len(toEmails) = 0
     THEN createErrorResult("recipient-required", <<>>)
     ELSE IF ~configured
     THEN createErrorResult("not-configured", <<>>)
     ELSE IF sendEmail(delivery).success
     THEN createSuccessResult("sent", toEmails)
     ELSE createErrorResult("send-failed", <<>>)

\* test-email
testEmailTool(configured, delivery) ==
  IF ~configured THEN createErrorResult("not-configured", <<>>)
  ELSE IF delivery = "noTransporter"
  THEN createErrorResult("not-initialized", <<>>)
  ELSE IF testConnection(delivery)
  THEN createSuccessResult("connection-works", <<>>)
  ELSE createErrorResult("connection-failed", <<>>)

\* send-task-notification: the tasks map comes from a dynamic import
sendTaskNotificationTool(m, params, imported, delivery) ==
  LET toEmails == parseCommaSeparated(params.to)
      invalidEmails == SelectSeq(toEmails, LAMBDA e : ~isValidEmail(e))
  IN IF ~imported THEN handlerCatch(<<"import">>)
     ELSE IF ~MapHas(m, params.taskId) /\ params.action # "deleted"
     THEN createErrorResult("not-found", <<params.taskId>>)
     ELSE IF Len(invalidEmails) > 0
     THEN createErrorResult("invalid-email", invalidEmails)
     ELSE IF sendEmail(delivery).success
     THEN createSuccessResult("notification-sent", toEmails)
     ELSE createErrorResult("send-failed", <<>>)

EmailHandler(tool) == tool \in registry

SendEmail(tool, to, configured, delivery) ==
  /\ EmailHandler(tool)
  /\ result' = Called(tool, to,
       IF ~features.emailEnabled THEN emailDisabled
       ELSE sendEmailTool(to, configured, delivery))
  /\ ToolFrame
  /\ UNCHANGED <<tasks, environmentVariables, processEnv>>

TestEmail(configured, delivery) ==
  /\ EmailHandler("test-email")
  /\ result' = Called("test-email", Undefined,
       IF ~features.emailEnabled THEN emailDisabled
       ELSE testEmailTool(configured, delivery))
  /\ ToolFrame
  /\ UNCHANGED <<tasks, environmentVariables, processEnv>>

SendTaskNotification(params, imported, delivery) ==
  /\ EmailHandler("send-task-notification")
  /\ InUse("tasks")
  /\ result' = Called("send-task-notification", params,
       IF ~features.emailEnabled THEN emailDisabled
       ELSE sendTaskNotificationTool(tasks, params, imported, delivery))
  /\ ToolFrame
  /\ UNCHANGED <<tasks, environmentVariables, processEnv>>

\* a utility tool: none of them writes to the maps
UtilityCall(tool) ==
  /\ tool \in registry
  /\ result' = Called(tool, Undefined, createSuccessResult("utility", <<>>))
  /\ ToolFrame
  /\ UNCHANGED <<tasks, environmentVariables, processEnv>>

\* a call of a name that is not registered: no handler runs
UnknownTool(tool) ==
  /\ tool \notin registry
  /\ result' = Called(tool, Undefined,
                      createErrorResult("unknown-tool", <<>>))
  /\ ToolFrame
  /\ UNCHANGED <<tasks, environmentVariables, processEnv>>

\* a second passes
Tick ==
  /\ clock < MaxClock
  /\ clock' = clock + 1
  /\ result' = NoCall
  /\ UNCHANGED <<sessionVars, appVars, features, registry, tasks,
                 environmentVariables,
                 processEnv>>

\* the enhanced server after startup with the features at their defaults
ToolsInit == Init /\ variant = "enhanced"

\* calls of the task tools
TaskNext ==
  \/ \E p \in CreateParams, id \in Ids : CreateTask(p, id)
  \/ \E p \in ListParams : ListTasks(p)
  \/ PendingTasks
  \/ \E id \in Ids : CompleteTask(id)
  \/ \E id \in Ids, p \in UpdateParams : UpdateTask(id, p)
  \/ \E id \in Ids : DeleteTask(id)
  \/ TaskStats
  \/ \E status \in {"pending", "completed"} : LegacyListTasks(status)

\* calls of the environment variable tools
EnvNext ==
  \/ \E p \in SetParams : SetEnvVar(p)
  \/ \E p \in GetParams : GetEnvVar(p)
  \/ \E p \in ListEnvParams : ListEnvVars(p)
  \/ \E k \in RawKeys : DeleteEnvVar(k)
  \/ \E p \in ExportParams : ExportEnvVars(p)

\* calls of the email tools and of the utility tools
MailNext ==
  \/ \E tool \in {"send-email", "send-html-email"}, to \in Recipients,
        configured \in BOOLEAN, delivery \in Deliveries :
       SendEmail(tool, to, configured, delivery)
  \/ \E configured \in BOOLEAN, delivery \in Deliveries :
       TestEmail(configured, delivery)
  \/ \E p \in [to : Notified, taskId : Ids, action : Notifications],
        imported \in BOOLEAN, delivery \in Deliveries :
       SendTaskNotification(p, imported, delivery)
  \/ \E tool \in Range(utilityTools) : UtilityCall(tool)

\* the task handlers of every server of the repository on one map
LegacyNext == \E route \in LegacyRoutes, id \in Ids : LegacyCompleteTask(route, id)
TaskServers == ToolsInit /\ [][TaskNext \/ LegacyNext \/ Tick]_vars

\* the enhanced server serving tool calls of every category
ToolsNext == TaskNext \/ EnvNext \/ MailNext \/ Tick

Tools == ToolsInit /\ [][ToolsNext]_vars

\* the server while its clients call the task tools alone
TaskTools == ToolsInit /\ [][TaskNext \/ Tick]_vars

\* the server while its clients call the environment variable tools alone
EnvTools == ToolsInit /\ [][EnvNext \/ Tick]_vars

\* the server started with any setting of the three feature flags, and the
\* calls of registered and of unregistered names that follow while the clock
\* stands
RegistryInit ==
  /\ \E startEnv \in [FeatureNames -> FlagValues] :
       features = serverConfigFeatures(startEnv)
  /\ validateToolRegistry(features)
  /\ registry = registerTools(features)
  /\ tasks = <<>>
  /\ environmentVariables = <<>>
  /\ processEnv = SystemEnv
  /\ clock = 0
  /\ result = NoCall
  /\ variant = "enhanced"
  /\ proc = "running"
  /\ transports = [T \in Tokens |-> NoTransport]
  /\ nTransports = 0
  /\ sessionId = [t \in TransportIds |-> NoToken]
  /\ closed = [t \in TransportIds |-> FALSE]
  /\ nextUuid = 0
  /\ connected = NoTransport
  /\ inflight = {}
  /\ last = Response(0, NoTransport, FALSE)
  /\ shut = [pc |-> "idle", keys |-> <<>>, t |-> NoTransport]
  /\ removals = [T \in Tokens |-> 0]
  /\ fault = FALSE
  /\ AppsIdle
RegistryNext ==
  \/ TaskNext
  \/ EnvNext
  \/ MailNext
  \/ \E tool \in ToolNames : UnknownTool(tool)
Registry == RegistryInit /\ [][RegistryNext]_vars

\* module load of the enhanced server with any setting of the feature flags
StartupInit ==
  /\ \E startEnv \in [FeatureNames -> FlagValues] :
       features = serverConfigFeatures(startEnv)
  /\ registry = {}
  /\ tasks = <<>>
  /\ environmentVariables = <<>>
  /\ processEnv = SystemEnv
  /\ clock = 0
  /\ result = NoCall
  /\ variant = "enhanced"
  /\ proc = "running"
  /\ transports = [T \in Tokens |-> NoTransport]
  /\ nTransports = 0
  /\ sessionId = [t \in TransportIds |-> NoToken]
  /\ closed = [t \in TransportIds |-> FALSE]
  /\ nextUuid = 0
  /\ connected = NoTransport
  /\ inflight = {}
  /\ last = Response(0, NoTransport, FALSE)
  /\ shut = [pc |-> "idle", keys |-> <<>>, t |-> NoTransport]
  /\ removals = [T \in Tokens |-> 0]
  /\ fault = FALSE
  /\ AppsIdle
StartupNext == \E extra \in Extras : RegisterTools(extra)
Startup == StartupInit /\ [][StartupNext]_vars


(***************************************************************************)
(* start-notification-stream of the simple server. The handler runs from   *)
(* one await to the next; what sendNotification does on a connection that  *)
(* has closed is the SDK's: it resolves or throws, and the handler catches. *)
(***************************************************************************)
Counts == {-1, 0, 1, 2, 3}
SendOutcomes == {"ok", "threw"}
AppFrame == UNCHANGED <<sessionVars, toolVars>>

\* while (count === 0 || counter < count) { counter++; await
\* sendNotification(...) ... }, else the return of the result
loopTest(s) ==
  IF s.count = 0 \/ s.counter < s.count
  THEN [s EXCEPT !.counter = s.counter + 1, !.pc = "sending"]
  ELSE [s EXCEPT !.pc = "returned"]

\* the tool is called: let counter = 0, then the first test of the loop
StartStream(count) ==
  /\ stream.pc = "idle"
  /\ stream' = loopTest([stream EXCEPT !.count = count, !.counter = 0])
  /\ AppFrame /\ UNCHANGED <<notes, mcp>>

\* sendNotification settles, or throws into the catch that only logs; then
\* await sleep(interval)
SendSettles(outcome) ==
  /\ stream.pc = "sending"
  /\ stream' = [stream EXCEPT !.pc = "sleeping", !.sent = outcome]
  /\ AppFrame /\ UNCHANGED <<notes, mcp>>

\* the timer fires: the next test of the loop
Wake ==
  /\ stream.pc = "sleeping"
  /\ stream.counter < MaxCounter
  /\ stream' = loopTest(stream)
  /\ AppFrame /\ UNCHANGED <<notes, mcp>>

\* the connection of the session closes (transport.onclose)
CloseConnection ==
  /\ stream.open
  /\ stream' = [stream EXCEPT !.open = FALSE]
  /\ AppFrame /\ UNCHANGED <<notes, mcp>>

StreamInit == Init /\ variant = "simple"
StreamNext ==
  \/ \E count \in Counts : StartStream(count)
  \/ \E outcome \in SendOutcomes : SendSettles(outcome)
  \/ Wake
  \/ CloseConnection
Stream == StreamInit /\ [][StreamNext]_vars

(***************************************************************************)
(* The notes app: NotesController -> NotesService -> NoteRepository. The   *)
(* repository is an array of notes and a counter; an exception of the      *)
(* service is the HTTP status Nest answers with.                           *)
(***************************************************************************)
NoteIds == 1..(MaxNoteId + 1)
CreateNoteDtos ==
  {[id |-> 0, title |-> "t", content |-> "c"],
   [id |-> 0, title |-> "t", content |-> Undefined]}
UpdateData ==
  {[id |-> 0, title |-> "u", content |-> Undefined],
   [id |-> 1, title |-> Undefined, content |-> "d"]}
Pages == 0..3
Limits == {0, 1, 2, 100, 101}
NoteOf(ns, id) == ns[CHOOSE i \in DOMAIN ns : ns[i].id = id]
HasNote(ns, id) == \E i \in DOMAIN ns : ns[i].id = id

\* findById: the note with the id, else null
findByIndex(ns, id) == IF id \in DOMAIN ns THEN <<ns[id]>> ELSE <<>>
findById(ns, id) == IF HasNote(ns, id) THEN <<NoteOf(ns, id)>> ELSE <<>>

\* update: { ...this.notes[index], ...entityData, id }
mergedKeepingDataId(note, entityData, id) ==
  [id |-> IF entityData.id # 0 THEN entityData.id ELSE note.id,
   title |-> IF entityData.title # Undefined THEN entityData.title
             ELSE note.title,
   content |-> IF entityData.content # Undefined THEN entityData.content
               ELSE note.content,
   createdAt |-> note.createdAt]
merged(note, entityData, id) ==
  [id |-> id,
   title |-> IF entityData.title # Undefined THEN entityData.title
             ELSE note.title,
   content |-> IF entityData.content # Undefined THEN entityData.content
               ELSE note.content,
   createdAt |-> note.createdAt]
update(ns, id, entityData) ==
  [i \in DOMAIN ns |->
     IF ns[i].id = id THEN merged(ns[i], entityData, id) ELSE ns[i]]

\* remove: splice(index, 1) at the first index with the id
remove(ns, id) == SelectSeq(ns, LAMBDA note : note.id # id)

\* findWithPagination: slice(startIndex, endIndex) of the array and the
\* page arithmetic
pageFromNextIndex(ns, page, limit) ==
  LET startIndex == page * limit
      endIndex == (page + 1) * limit
      totalItems == Len(ns)
      totalPages == (totalItems + limit - 1) \div limit
      upTo == IF endIndex < totalItems THEN endIndex ELSE totalItems
  IN [items |-> SubSeq(ns, startIndex + 1, upTo), total |-> totalItems,
      page |-> page, limit |-> limit, totalPages |-> totalPages,
      hasNext |-> page < totalPages, hasPrevious |-> page > 1]
findWithPagination(ns, page, limit) ==
  LET startIndex == (page - 1) * limit
      endIndex == page * limit
      totalItems == Len(ns)
      totalPages == (totalItems + limit - 1) \div limit
      upTo == IF endIndex < totalItems THEN endIndex ELSE totalItems
  IN [items |-> SubSeq(ns, startIndex + 1, upTo), total |-> totalItems,
      page |-> page, limit |-> limit, totalPages |-> totalPages,
      hasNext |-> page < totalPages, hasPrevious |-> page > 1]

\* the response of the request just served
NoteResponse(op, id, page, limit, data, status, body) ==
  [op |-> op, id |-> id, page |-> page, limit |-> limit, data |-> data,
   status |-> status, body |-> body]
NotesFrame == AppFrame /\ UNCHANGED <<stream, mcp>>

\* POST /notes: createNote, save
CreateNote(dto) ==
  /\ notes.idCounter <= MaxNoteId
  /\ LET note == [id |-> notes.idCounter, title |-> dto.title,
                  content |-> IF dto.content = Undefined THEN ""
                              ELSE dto.content,
                  createdAt |-> clock]
     IN notes' = [notes |-> Append(notes.notes, note),
                  idCounter |-> notes.idCounter + 1,
                  res |-> NoteResponse("create", 0, 0, 0, dto, 201, <<note>>)]
  /\ NotesFrame

\* GET /notes/:id: findNoteById
GetNoteById(id) ==
  /\ LET note == findById(notes.notes, id)
     IN notes' = [notes EXCEPT !.res =
                    NoteResponse("get", id, 0, 0, NoData,
                                 IF note = <<>> THEN 404 ELSE 200, note)]
  /\ NotesFrame

\* PUT /notes/:id: updateNote, update
UpdateNote(id, updateData) ==
  /\ IF ~HasNote(notes.notes, id)
     THEN notes' = [notes EXCEPT !.res =
                      NoteResponse("put", id, 0, 0, updateData, 404, <<>>)]
     ELSE LET after == update(notes.notes, id, updateData)
          IN notes' = [notes EXCEPT !.notes = after, !.res =
                         NoteResponse("put", id, 0, 0, updateData, 200,
                           <<merged(NoteOf(notes.notes, id), updateData, id)>>)]
  /\ NotesFrame

\* DELETE /notes/:id: removeNote, remove
DeleteNote(id) ==
  /\ IF ~HasNote(notes.notes, id)
     THEN notes' = [notes EXCEPT !.res =
                      NoteResponse("delete", id, 0, 0, NoData, 404, <<>>)]
     ELSE notes' = [notes EXCEPT !.notes = remove(notes.notes, id), !.res =
                      NoteResponse("delete", id, 0, 0, NoData, 204, <<>>)]
  /\ NotesFrame

\* GET /notes/paginated: findNotesWithPagination checks page and limit, then
\* findWithPagination
GetPaginatedNotes(page, limit) ==
  /\ notes' = [notes EXCEPT !.res =
       IF page < 1 \/ limit < 1 \/ limit > 100
       THEN NoteResponse("paginated", 0, page, limit, NoData, 400, <<>>)
       ELSE NoteResponse("paginated", 0, page, limit, NoData, 200,
                         <<findWithPagination(notes.notes, page, limit)>>)]
  /\ NotesFrame

NotesInit == Init /\ variant = "simple"
NotesNext ==
  \/ \E dto \in CreateNoteDtos : CreateNote(dto)
  \/ \E id \in NoteIds : GetNoteById(id)
  \/ \E id \in NoteIds, data \in UpdateData : UpdateNote(id, data)
  \/ \E id \in NoteIds : DeleteNote(id)
  \/ \E page \in Pages, limit \in Limits : GetPaginatedNotes(page, limit)
Notes == NotesInit /\ [][NotesNext]_vars

(***************************************************************************)
(* McpService of the agent server. connect() assigns this.client before it *)
(* awaits client.connect(transport); callTool and onModuleInit are async,  *)
(* so other invocations run while one is suspended at that await. Caller 0 *)
(* is onModuleInit, which Nest awaits before the server listens; the others *)
(* are callTool invocations.                                               *)
(***************************************************************************)
McpFrame == AppFrame /\ UNCHANGED <<stream, notes>>

\* connect(), up to its await: return if this.client is set, else new
\* Client, new StreamableHTTPClientTransport, client.connect(transport)
connect(m, k) ==
  IF m.client # 0 THEN [m EXCEPT !.pc[k] = "connected"]
  ELSE [m EXCEPT !.client = m.made + 1, !.transport = m.made + 1,
                 !.made = m.made + 1, !.conn[m.made + 1] = "connecting",
                 !.mine[k] = m.made + 1, !.pc[k] = "awaitConnect"]

\* callTool after the connection step: throw if this.client is null (the
\* catch answers with the fallback), else this.client.request(...)
request(m, k) ==
  IF m.client = 0 THEN [m EXCEPT !.pc[k] = "fallback"]
  ELSE [m EXCEPT !.pc[k] = "requested", !.used[k] = m.client]

\* onModuleInit: await this.connect()
ModuleInit ==
  /\ mcp.pc[0] = "idle"
  /\ LET m == connect(mcp, 0)
     IN mcp' = IF m.pc[0] = "connected" THEN [m EXCEPT !.pc[0] = "done"] ELSE m
  /\ McpFrame

\* callTool: if (!this.client) await this.connect(); then the request
CallTool(k) ==
  /\ k # 0
  /\ mcp.pc[0] = "done"
  /\ mcp.pc[k] = "idle"
  /\ mcp.client # 0 \/ mcp.made < MaxClients
  /\ LET m == connect(mcp, k)
     IN mcp' = IF m.pc[k] = "connected" THEN request(m, k) ELSE m
  /\ McpFrame

\* client.connect(transport) settles: on success connect() returns, on
\* failure its catch sets client and transport to null and returns
ConnectSettles(k, ok) ==
  /\ mcp.pc[k] = "awaitConnect"
  /\ mcp.mine[k] # 0
  /\ LET c == mcp.mine[k]
         m == IF ok THEN [mcp EXCEPT !.conn[c] = "connected"]
              ELSE [mcp EXCEPT !.conn[c] = "failed", !.client = 0,
                               !.transport = 0]
     IN mcp' = IF k = 0 THEN [m EXCEPT !.pc[0] = "done"] ELSE request(m, k)
  /\ McpFrame

\* the request a caller issued is answered, or fails into the fallback
RequestSettles(k, ok) ==
  /\ mcp.pc[k] = "requested"
  /\ mcp' = [mcp EXCEPT !.pc[k] = IF ok THEN "done" ELSE "fallback"]
  /\ McpFrame

\* the caller's promise has settled; the next invocation may start
Returns(k) ==
  /\ mcp.pc[k] \in {"done", "fallback"}
  /\ k # 0
  /\ mcp' = [mcp EXCEPT !.pc[k] = "idle", !.mine[k] = 0, !.used[k] = 0]
  /\ McpFrame

McpInit == Init /\ variant = "simple"
McpNext ==
  \/ ModuleInit
  \/ \E k \in Callers : CallTool(k)
  \/ \E k \in Callers, ok \in BOOLEAN : ConnectSettles(k, ok)
  \/ \E k \in Callers, ok \in BOOLEAN : RequestSettles(k, ok)
  \/ \E k \in Callers : Returns(k)
Mcp == McpInit /\ [][McpNext]_vars

(***************************************************************************)
(* Vocabulary of the properties                                            *)
(***************************************************************************)
\* the tokens an initialization has assigned to a transport
Issued == {sessionId[t] : t \in Made} \ {NoToken}

\* the tokens whose session has been closed: by a DELETE, by the connection
\* itself, or by the shutdown loop
Terminated == {sessionId[t] : t \in {u \in Made : closed[u]}} \ {NoToken}

\* a request carrying the header sid arrives in this step
Arrival(sid) == Get(sid) \/ Delete(sid) \/ \E init \in BOOLEAN : Post(sid, init)

\* this step routes a request with header sid to the transport registered for it
Routed(sid) ==
  \E h \in inflight' :
    /\ h.sid = sid
    /\ h.transport # NoTransport
    /\ sessionId[h.transport] = sid
    /\ inflight' = inflight \cup {h}
    /\ NoResponse

\* this step answers a request 400 and starts no handler
Rejected ==
  /\ last' = Response(400, NoTransport, FALSE)
  /\ inflight' = inflight

\* the handler h ends in this step with its response in last'
Ends(h) ==
  /\ h \in inflight
  /\ inflight' = inflight \ {h}
  /\ proc' # "exited"

C2_DistinctSessionsNoCrossTalk ==
  /\ [](\A t1, t2 \in Made :
          sessionId[t1] # NoToken /\ sessionId[t1] = sessionId[t2] => t1 = t2)
  /\ [][\A h \in inflight :
          Ends(h) /\ last'.status = 200 /\ ~last'.threw
            => last'.via = h.transport]_vars

\* C3: the session map holds at most one connection object per token, and a
\* request carrying a registered token is routed to that object, none being
\* constructed.
C3_OneTransportPerTokenAndReuse ==
  /\ [](/\ \A t1, t2 \in Made :
             sessionId[t1] # NoToken /\ sessionId[t1] = sessionId[t2] => t1 = t2
        /\ \A T \in Tokens :
             transports[T] # NoTransport => sessionId[transports[T]] = T
        /\ \A h \in inflight :
             h.sid # NoToken =>
               h.transport \in Made /\ sessionId[h.transport] = h.sid)
  /\ [][\A T \in Tokens :
          Arrival(T) /\ transports[T] # NoTransport
            => /\ nTransports' = nTransports
               /\ \E h \in inflight' :
                    h.sid = T /\ h.transport = transports[T]]_vars

\* two requests carrying the same registered token are in flight on the one
\* transport of that token while a second session exists
C3_Witness ==
  /\ nTransports = 2
  /\ \E h1, h2 \in inflight :
       /\ h1 # h2
       /\ h1.sid # NoToken
       /\ h1.sid = h2.sid
       /\ h1.transport = h2.transport
       /\ transports[h1.sid] = h1.transport

\* C4: the entry of a session that closes leaves the map exactly once, however
\* DELETE, onclose and the shutdown loop interleave; no trigger dereferences a
\* missing entry and none removes the entry of another session.
C4_RemovedExactlyOnce ==
  /\ ~fault
  /\ \A T \in Tokens : removals[T] <= 1
  /\ \A T \in Terminated : removals[T] = 1 /\ transports[T] = NoTransport

\* the shutdown loop awaits close() of a session whose entry has already left
\* the map, while a DELETE for the same session is still in flight
C4_Witness ==
  /\ proc = "shutting"
  /\ shut.pc = "await"
  /\ removals[Head(shut.keys)] = 1
  /\ \E h \in inflight : h.pc = "closing" /\ h.transport = shut.t

C8_FailedInitializeRegistersNothing ==
  [][\A h \in inflight :
       Ends(h) /\ h.sid = NoToken /\ last'.threw
         => /\ last'.status = 500
            /\ \A T \in Tokens : transports'[T] # h.transport]_vars

\* C9: when the shutdown handler finishes, the session map is empty, whatever
\* the number of sessions and also when closing one of them fails.
C9_ShutdownEmptiesMap ==
  shut.pc = "done" => \A T \in Tokens : transports[T] = NoTransport

\* C10: closed is terminal. Once a session has closed or been terminated its
\* token stays out of the session map, is never registered again, and every
\* later request carrying it is answered 400.
C10_ClosedIsTerminal ==
  [][\A T \in Terminated :
       /\ transports[T] = NoTransport
       /\ transports'[T] = NoTransport
       /\ T \in Terminated'
       /\ Arrival(T) => Rejected]_vars

\* a request was rejected after a session had closed, while a session
\* registered later is active
C10_Witness ==
  /\ last.status = 400
  /\ proc = "running"
  /\ \E T1 \in Terminated, T2 \in Tokens : T1 < T2 /\ transports[T2] # NoTransport

\* C11: when handleRequest of a POST, GET or DELETE for a registered session
\* throws before a response was started, the request is answered 500 and the
\* session map is left as it was.
C11_FailureIs500AndKeepsMap ==
  [][\A h \in inflight :
       Ends(h) /\ h.sid # NoToken /\ last'.threw /\ last'.status # 200
         => /\ last'.status = 500
            /\ transports' = transports]_vars

(***************************************************************************)
(* Vocabulary of the properties of the tool handlers                       *)
(***************************************************************************)
\* the id a complete-task, update-task or delete-task call named
LookedUpId(r) == IF r.tool = "update-task" THEN r.arg.id ELSE r.arg
TaskLookups == {"complete-task", "update-task", "delete-task"}
NotFound(r) == r.isError /\ r.kind = "not-found"

\* C12: a lookup of a key that is not in the map reports not-found
\* (get-env-var; complete-task, update-task, delete-task), a lookup of a key
\* that is in the map returns the record stored under it, set-env-var and
\* create-task leave the record they report in the map, and delete-env-var
\* and delete-task leave the key out of it.
C12_StorageRoundTrip ==
  [][/\ result'.tool = "get-env-var" =>
          LET k == sanitizeEnvKey(result'.arg.key)
          IN IF MapHas(environmentVariables, k)
             THEN /\ ~result'.isError
                  /\ result'.kind = "details"
                  /\ result'.out[1].key = MapGet(environmentVariables, k).key
             ELSE NotFound(result')
     /\ result'.tool \in TaskLookups =>
          (NotFound(result') <=> ~MapHas(tasks, LookedUpId(result')))
     /\ result'.tool = "set-env-var" /\ ~result'.isError =>
          LET k == sanitizeEnvKey(result'.arg.key)
          IN /\ MapHas(environmentVariables', k)
             /\ MapGet(environmentVariables', k).value = result'.arg.value
     /\ result'.tool = "create-task" =>
          /\ MapHas(tasks', result'.out[1].id)
          /\ formatTask(MapGet(tasks', result'.out[1].id)) = result'.out[1]
     /\ result'.tool = "delete-env-var" /\ ~result'.isError =>
          ~MapHas(environmentVariables', sanitizeEnvKey(result'.arg))
     /\ result'.tool = "delete-task" /\ ~result'.isError =>
          ~MapHas(tasks', result'.arg)]_vars

\* no key stands in two entries of the map
KeysUnique(m) == \A i, j \in DOMAIN m : m[i].k = m[j].k => i = j
\* a write to key k left the map its size and every other entry as it was
OneEntryWritten(m, after, k) ==
  /\ Len(after) = Len(m)
  /\ \A i \in DOMAIN m : after[i].k = m[i].k
  /\ \A i \in DOMAIN m : m[i].k # k => after[i] = m[i]
\* set-env-var on a stored key replaced its fields, kept its creation time
\* and stamped it
EnvVarReplaced(r) ==
  LET k == sanitizeEnvKey(r.arg.key)
  IN ~r.isError /\ MapHas(environmentVariables, k) =>
       /\ OneEntryWritten(environmentVariables, environmentVariables', k)
       /\ MapGet(environmentVariables', k) =
            [key |-> k, value |-> r.arg.value,
             description |-> r.arg.description, isSecret |-> r.arg.isSecret,
             createdAt |-> MapGet(environmentVariables, k).createdAt,
             updatedAt |-> clock]
\* update-task on a stored id wrote that one entry and stamped it
TaskUpdated(r) ==
  MapHas(tasks, r.arg.id) =>
    /\ OneEntryWritten(tasks, tasks', r.arg.id)
    /\ MapGet(tasks', r.arg.id).updatedAt = clock
\* complete-task on a stored id wrote that one entry and stamped it
TaskCompletedAndStamped(r) ==
  MapHas(tasks, r.arg) =>
    /\ OneEntryWritten(tasks, tasks', r.arg)
    /\ MapGet(tasks', r.arg).completed
    /\ MapGet(tasks', r.arg).updatedAt = clock

\* C13 as stated: keys are unique in both maps in every state; set-env-var
\* on a key whose sanitized form is stored replaces that entry, keeps its
\* creation time, stamps its update time and leaves the size of the map;
\* update-task and complete-task on a stored id change that one entry and
\* stamp its update time.
C13_UniqueKeysAndStampedWrites ==
  [][/\ KeysUnique(tasks') /\ KeysUnique(environmentVariables')
     /\ result'.tool = "set-env-var" => EnvVarReplaced(result')
     /\ result'.tool = "update-task" => TaskUpdated(result')
     /\ result'.tool = "complete-task" => TaskCompletedAndStamped(result')]_vars

\* C13 amended: as above, but complete-task stamps the update time only of
\* a task that was not completed yet; on a completed task it changes
\* nothing, the update time included.
C13_UniqueKeysAndStampedWritesOnce ==
  [][/\ KeysUnique(tasks') /\ KeysUnique(environmentVariables')
     /\ result'.tool = "set-env-var" => EnvVarReplaced(result')
     /\ result'.tool = "update-task" => TaskUpdated(result')
     /\ result'.tool = "complete-task" /\ MapHas(tasks, result'.arg) =>
          IF MapGet(tasks, result'.arg).completed
          THEN tasks' = tasks
          ELSE TaskCompletedAndStamped(result')]_vars

\* a different spelling of a stored key was set again a second later, next
\* to another variable
C13_Witness ==
  /\ result.tool = "set-env-var"
  /\ result.kind = "updated"
  /\ result.arg.key # sanitizeEnvKey(result.arg.key)
  /\ Len(environmentVariables) = 2
  /\ LET envVar == MapGet(environmentVariables,
                          sanitizeEnvKey(result.arg.key))
     IN envVar.createdAt < envVar.updatedAt /\ envVar.value = result.arg.value

\* every task a listing shows is stored with the completed flag given
ShownAre(r, completed) ==
  \A i \in DOMAIN r.out :
    /\ r.out[i].completed = completed
    /\ MapHas(tasks, r.out[i].id)
    /\ MapGet(tasks, r.out[i].id).completed = completed

\* C14: list-tasks with status "pending", with or without priority and tag
\* filter, and pending-tasks never show a task whose completed flag is true;
\* list-tasks with status "completed" never shows one whose flag is false;
\* the same for list-tasks of the legacy server.
C14_StatusFilterNeverLeaks ==
  /\ result.tool = "list-tasks" /\ result.arg.status = "pending" =>
       ShownAre(result, FALSE)
  /\ result.tool = "pending-tasks" => ShownAre(result, FALSE)
  /\ result.tool = "list-tasks" /\ result.arg.status = "completed" =>
       ShownAre(result, TRUE)
  /\ result.tool = "legacy-list-tasks" /\ result.arg = "pending" =>
       ShownAre(result, FALSE)
  /\ result.tool = "legacy-list-tasks" /\ result.arg = "completed" =>
       ShownAre(result, TRUE)

\* a pending listing showed one of two stored tasks, the other one being
\* completed
C14_Witness ==
  /\ result.tool = "list-tasks"
  /\ result.arg.status = "pending"
  /\ Len(result.out) = 1
  /\ Len(tasks) = 2
  /\ \E i \in DOMAIN tasks : tasks[i].v.completed

\* the order of a listing: higher priority rank first, then the later
\* creation time, then the earlier place in the map
ListedBefore(a, b) ==
  \/ priorityOrder(a.priority) > priorityOrder(b.priority)
  \/ /\ priorityOrder(a.priority) = priorityOrder(b.priority)
     /\ a.created > b.created
  \/ /\ priorityOrder(a.priority) = priorityOrder(b.priority)
     /\ a.created = b.created
     /\ MapIndex(tasks, a.id) < MapIndex(tasks, b.id)
Listings == {"list-tasks", "pending-tasks"}

\* C15: list-tasks and pending-tasks show the tasks by priority rank (high,
\* medium, low; no priority counts as medium), tasks of one rank by creation
\* time descending, and tasks equal on both in the order of the map; the
\* same call made again on the unchanged map shows the same sequence.
C15_ListingOrder ==
  result.tool \in Listings =>
    /\ \A i, j \in DOMAIN result.out :
         i < j => ListedBefore(result.out[i], result.out[j])
    /\ result.tool = "list-tasks" =>
         result = Called("list-tasks", result.arg,
                         listTasks(tasks, result.arg))
    /\ result.tool = "pending-tasks" =>
         result = Called("pending-tasks", Undefined, pendingTasks(tasks))

\* a listing showed the task stored second before the one stored first
\* because, at equal priority, it was created later
C15_Witness ==
  /\ result.tool = "list-tasks"
  /\ Len(result.out) = 2
  /\ result.out[1].priority = result.out[2].priority
  /\ result.out[1].created > result.out[2].created
  /\ MapIndex(tasks, result.out[1].id) = 2

ReadTools ==
  {"list-tasks", "pending-tasks", "task-stats",
   "get-env-var", "list-env-vars", "export-env-vars"}

\* C16: a call of list-tasks, pending-tasks, task-stats, get-env-var,
\* list-env-vars or export-env-vars, with any filter or flag, leaves the
\* tasks map and the environment-variable map as they were, entry for entry
\* and in the same order.
C16_ReadsLeaveStorage ==
  [][result'.tool \in ReadTools =>
       /\ tasks' = tasks
       /\ environmentVariables' = environmentVariables]_vars

\* a listing showed two tasks in another order than the map holds them, and
\* the map still holds them in its own order
C16_Witness ==
  /\ result.tool = "list-tasks"
  /\ Len(result.out) = 2
  /\ Len(tasks) = 2
  /\ result.out[1].id = tasks[2].k

\* the steps of a task's life, read off the call a step answered
Created(r) == r.tool = "create-task" /\ ~r.isError
Completed(r) == r.tool = "complete-task" /\ r.kind = "completed"
Deleted(r) == r.tool = "delete-task" /\ r.kind = "deleted"
StoredAsGiven(task, params) ==
  /\ task.completed = FALSE
  /\ task.title = params.title
  /\ task.description = params.description
  /\ task.priority =
       (IF params.priority = Undefined THEN "medium" ELSE params.priority)
  /\ task.tags = (IF params.tags = Absent THEN <<>> ELSE parseTags(params.tags))
CreateStoresTask ==
  Created(result') =>
    LET id == result'.out[1].id
    IN /\ MapHas(tasks', id)
       /\ MapGet(tasks', id).id = id
       /\ StoredAsGiven(MapGet(tasks', id), result'.arg)
CompleteSetsFlagOnly ==
  Completed(result') =>
    LET id == result'.arg
    IN /\ MapHas(tasks, id) /\ MapHas(tasks', id)
       /\ MapGet(tasks', id) =
            [MapGet(tasks, id) EXCEPT !.completed = TRUE, !.updatedAt = clock]
DeleteRemoves == Deleted(result') => ~MapHas(tasks', result'.arg)
AbsentIsNotFound ==
  result'.tool \in TaskLookups /\ ~MapHas(tasks, LookedUpId(result')) =>
    NotFound(result')

\* C17: create-task stores the task under a generated id that was not a key
\* of the map before, with completed false and the given title, description,
\* priority (medium by default) and tags; complete-task on a stored id sets
\* completed and the update time and nothing else; delete-task removes the
\* entry, and complete-task, update-task and delete-task on an id that is not
\* a key report not-found.
C17_TaskLifecycle ==
  [][/\ Created(result') => ~MapHas(tasks, result'.out[1].id)
     /\ CreateStoresTask
     /\ CompleteSetsFlagOnly
     /\ DeleteRemoves
     /\ AbsentIsNotFound]_vars

\* the tools of the categories whose toggle is on, and of those whose toggle
\* is off
EnabledTools ==
  (IF features.taskManagementEnabled THEN Range(taskTools) ELSE {})
    \cup (IF features.emailEnabled THEN Range(emailTools) ELSE {})
    \cup (IF features.environmentVariablesEnabled THEN Range(envTools) ELSE {})
DisabledTools ==
  (Range(taskTools) \cup Range(emailTools) \cup Range(envTools)) \ EnabledTools
FeatureDisabled(r) == r.isError /\ r.kind = "feature-disabled"
UnknownOperation(r) == r.isError /\ r.kind = "unknown-tool"

\* C18: whatever the three toggles were at startup, the registry holds the
\* utility tools and the tools of the enabled categories and nothing else,
\* and neither the toggles nor the registry change afterwards; the name of a
\* tool of a disabled category is found by no lookup, a call of it is
\* answered as an unknown operation, and no call is answered with "feature
\* is disabled".
C18_RegistryFollowsToggles ==
  /\ [](/\ registry = Range(utilityTools) \cup EnabledTools
        /\ \A name \in DisabledTools :
             getToolByName(features, name) = Undefined
        /\ result.tool \in DisabledTools => UnknownOperation(result)
        /\ ~FeatureDisabled(result))
  /\ [][features' = features /\ registry' = registry]_vars

\* with the email category off and the others on, a call of send-email was
\* answered as an unknown operation
C18_Witness ==
  /\ ~features.emailEnabled
  /\ features.taskManagementEnabled
  /\ features.environmentVariablesEnabled
  /\ result.tool = "send-email"
  /\ UnknownOperation(result)

\* what the email handlers give when the delivery, the connection test or
\* the import of the task storage fails
Envelope(r) == ~r.escaped /\ r.kind # "thrown"
FailureEnvelope(r) == Envelope(r) /\ r.isError
MailFailuresAnswered ==
  /\ \A to \in Recipients, configured \in BOOLEAN,
       delivery \in Deliveries \ {"sent"} :
       FailureEnvelope(sendEmailTool(to, configured, delivery))
  /\ \A configured \in BOOLEAN, delivery \in Deliveries \ {"sent"} :
       FailureEnvelope(testEmailTool(configured, delivery))
  /\ \A p \in [to : Notified, taskId : Ids, action : Notifications],
       imported \in BOOLEAN, delivery \in Deliveries :
       ~imported \/ delivery # "sent" =>
         FailureEnvelope(sendTaskNotificationTool(tasks, p, imported, delivery))
StorageKept ==
  /\ tasks' = tasks
  /\ environmentVariables' = environmentVariables
  /\ processEnv' = processEnv

\* C19: every call of a tool is answered with a result envelope and no
\* exception leaves a handler; when the delivery of a mail, the connection
\* test or the import of the task storage fails the envelope has isError
\* true; and a call answered with isError true leaves the tasks, the
\* environment variables and the process environment as they were.
C19_FailuresAreEnvelopes ==
  /\ [](Envelope(result) /\ MailFailuresAnswered)
  /\ [][result'.isError => StorageKept]_vars

\* with a task stored, send-task-notification failed to import the task
\* storage and answered with an error envelope
C19_Witness ==
  /\ result.tool = "send-task-notification"
  /\ result.kind = "failed"
  /\ FailureEnvelope(result)
  /\ Len(tasks) > 0

\* the other run: the same maps, but the variable under the key holds the
\* value given, in the map and in the process environment
SecretValues == Values \cup {<<>>, <<"s">>}
SecretKeys(m) == {k \in MapKeys(m) : MapGet(m, k).isSecret}
withValue(m, k, value) ==
  [i \in DOMAIN m |->
     IF m[i].k = k THEN [m[i] EXCEPT !.v.value = value] ELSE m[i]]
envWithValue(env, k, value) == [env EXCEPT ![k] = value]
SetMasks ==
  \A p \in SetParams, value \in SecretValues :
    p.isSecret =>
      setEnvVar(environmentVariables, [p EXCEPT !.value = value], clock)
        = setEnvVar(environmentVariables, p, clock)
GetMasks(k, value) ==
  \A p \in GetParams :
    ~p.showSecret =>
      getEnvVar(withValue(environmentVariables, k, value),
                envWithValue(processEnv, k, value), p)
        = getEnvVar(environmentVariables, processEnv, p)
ListMasks(k, value) ==
  \A p \in ListEnvParams :
    ~(p.showValues /\ p.showSecrets) =>
      listEnvVars(withValue(environmentVariables, k, value), p)
        = listEnvVars(environmentVariables, p)
ExportMasks(k, value) ==
  \A p \in ExportParams :
    ~p.includeSecrets =>
      exportEnvVars(withValue(environmentVariables, k, value), p, clock)
        = exportEnvVars(environmentVariables, p, clock)

\* C20: what set-env-var returns for a secret, what get-env-var returns
\* without showSecret, what list-env-vars returns unless both showValues and
\* showSecrets are set, and what export-env-vars returns without
\* includeSecrets, is the same in two runs that differ only in the value of
\* a variable stored as a secret.
C20_SecretsMasked ==
  /\ SetMasks
  /\ \A k \in SecretKeys(environmentVariables), value \in SecretValues :
       GetMasks(k, value) /\ ListMasks(k, value) /\ ExportMasks(k, value)

\* a secret is stored next to a variable that is not one, and get-env-var
\* without showSecret just answered for the secret with the mask
C20_Witness ==
  /\ Len(environmentVariables) = 2
  /\ result.tool = "get-env-var"
  /\ ~result.arg.showSecret
  /\ sanitizeEnvKey(result.arg.key) \in SecretKeys(environmentVariables)
  /\ result.out[1].value = Hidden
  /\ MapGet(environmentVariables, sanitizeEnvKey(result.arg.key)).value # Hidden

\* the handler makes one more attempt to send: counter++ and sendNotification
Attempts == stream'.counter > stream.counter
Returned == stream.pc = "returned"

\* C21: once the connection has closed, start-notification-stream makes no
\* further attempt to send a notification (the one awaited when the
\* connection closed is the last).
C21_StopsWhenClosed == [][Attempts => stream.open]_vars

\* "Number of notifications to send (0 for 100)"
DescribedLimit == 100
SentWhenReturned ==
  IF stream.count > 0 THEN stream.count
  ELSE IF stream.count = 0 THEN DescribedLimit ELSE 0

\* C23: start-notification-stream called with count > 0 makes count
\* attempts and returns; called with count = 0 it makes 100 attempts and
\* returns: it never makes a 101st, and a notification that failed to send
\* neither ends the loop nor keeps it from ending.
C23_StreamTerminates ==
  /\ stream.count = 0 => stream.counter <= DescribedLimit
  /\ Returned => stream.counter = SentWhenReturned

\* the notes app: the request a step served, and the array before and after
Served(op) == notes'.res.op = op
OthersKept(id) ==
  \A other \in NoteIds \ {id} :
    findById(notes'.notes, other) = findById(notes.notes, other)
CreatedIsStored ==
  LET r == notes'.res
  IN /\ r.status = 201
     /\ Len(r.body) = 1
     /\ HasNote(notes'.notes, r.body[1].id)
     /\ NoteOf(notes'.notes, r.body[1].id).title = r.data.title
     /\ NoteOf(notes'.notes, r.body[1].id).content =
          (IF r.data.content = Undefined THEN "" ELSE r.data.content)
     /\ OthersKept(r.body[1].id)
GetReturnsStored ==
  LET r == notes'.res
  IN IF HasNote(notes.notes, r.id)
     THEN r.status = 200 /\ r.body = <<NoteOf(notes.notes, r.id)>>
     ELSE r.status = 404
PutUpdates ==
  LET r == notes'.res
  IN IF HasNote(notes.notes, r.id)
     THEN /\ r.status = 200
          /\ HasNote(notes'.notes, r.id)
          /\ r.body = <<NoteOf(notes'.notes, r.id)>>
          /\ NoteOf(notes'.notes, r.id).title =
               (IF r.data.title # Undefined THEN r.data.title
                ELSE NoteOf(notes.notes, r.id).title)
          /\ NoteOf(notes'.notes, r.id).content =
               (IF r.data.content # Undefined THEN r.data.content
                ELSE NoteOf(notes.notes, r.id).content)
          /\ OthersKept(r.id)
     ELSE r.status = 404 /\ notes'.notes = notes.notes
DeleteRemovesNote ==
  LET r == notes'.res
  IN IF HasNote(notes.notes, r.id)
     THEN r.status = 204 /\ ~HasNote(notes'.notes, r.id) /\ OthersKept(r.id)
     ELSE r.status = 404 /\ notes'.notes = notes.notes
GoneStaysGone ==
  \A id \in NoteIds :
    ~HasNote(notes.notes, id) /\ id # notes.idCounter =>
      ~HasNote(notes'.notes, id)

\* C22: a created note is stored with the title and content given and GET
\* returns the stored note; PUT on a stored id changes the fields given and
\* returns the note GET then returns; DELETE on a stored id removes it; GET,
\* PUT and DELETE on an id that is not stored, never created or deleted,
\* answer 404 and change nothing, and an id that is gone stays gone.
C22_NotesRoundTrip ==
  [][/\ Served("create") => CreatedIsStored
     /\ Served("get") => GetReturnsStored
     /\ Served("put") => PutUpdates
     /\ Served("delete") => DeleteRemovesNote
     /\ GoneStaysGone]_vars

\* a note was created, updated and deleted, a later note is still stored,
\* and GET on the deleted id was just answered with 404
C22_Witness ==
  /\ notes.res.op = "get"
  /\ notes.res.status = 404
  /\ notes.res.id < notes.idCounter
  /\ Len(notes.notes) > 0

\* the pages of a listing with the limit, one after the other
RECURSIVE PagesJoined(_, _, _)
PagesJoined(ns, limit, upToPage) ==
  IF upToPage = 0 THEN <<>>
  ELSE PagesJoined(ns, limit, upToPage - 1)
         \o findWithPagination(ns, upToPage, limit).items
Ceiling(total, limit) ==
  CHOOSE n \in 0..total : n * limit >= total /\ (n = 0 \/ (n - 1) * limit < total)
PageIsRight(ns, page, limit, p) ==
  /\ p.total = Len(ns)
  /\ p.totalPages = Ceiling(Len(ns), limit)
  /\ Len(p.items) = Cardinality({i \in DOMAIN ns :
                                  (page - 1) * limit < i /\ i <= page * limit})
  /\ \A k \in DOMAIN p.items : p.items[k] = ns[(page - 1) * limit + k]
  /\ p.hasNext = (page < p.totalPages)
  /\ p.hasPrevious = (page > 1)
  /\ PagesJoined(ns, limit, p.totalPages) = ns

\* C24: GET /notes/paginated with page >= 1 and limit in 1..100 returns the
\* notes at positions (page-1)*limit .. page*limit-1 of the array, total the
\* number of notes, totalPages the ceiling of total/limit, hasNext exactly
\* when page < totalPages and hasPrevious exactly when page > 1, and the
\* pages 1..totalPages joined are the array; with page < 1 or limit outside
\* 1..100 the answer is 400 and carries no page.
C24_Pagination ==
  notes.res.op = "paginated" =>
    IF notes.res.page >= 1 /\ notes.res.limit >= 1 /\ notes.res.limit <= 100
    THEN /\ notes.res.status = 200
         /\ Len(notes.res.body) = 1
         /\ PageIsRight(notes.notes, notes.res.page, notes.res.limit,
                        notes.res.body[1])
    ELSE notes.res.status = 400 /\ notes.res.body = <<>>

\* three notes are stored and page 2 with limit 2 was returned: the third
\* note alone, with a previous page and no next one
C24_Witness ==
  /\ notes.res.op = "paginated"
  /\ notes.res.page = 2
  /\ notes.res.limit = 2
  /\ Len(notes.notes) = 3
  /\ notes.res.body[1].items = <<notes.notes[3]>>
  /\ notes.res.body[1].hasPrevious
  /\ ~notes.res.body[1].hasNext

\* the ids in the array, in array order
StoredIds(ns) == [i \in DOMAIN ns |-> ns[i].id]

\* C27: every save returns the counter's value and advances the counter, so
\* each id returned is greater than all returned before, also after a
\* removal; the ids in the array are distinct and were all handed out; and
\* PUT leaves the ids in the array as they are, also when the data carries
\* another id.
C27_NoteIdsUniqueNeverReused ==
  /\ [](/\ \A i, j \in DOMAIN notes.notes :
             notes.notes[i].id = notes.notes[j].id => i = j
        /\ \A i \in DOMAIN notes.notes : notes.notes[i].id < notes.idCounter)
  /\ [][/\ notes'.idCounter >= notes.idCounter
        /\ Served("create") =>
             /\ notes'.res.body[1].id = notes.idCounter
             /\ notes'.idCounter = notes.idCounter + 1
        /\ Served("put") => StoredIds(notes'.notes) = StoredIds(notes.notes)]_vars

\* PUT with data that carries id 1 was answered for note 2, which is still
\* stored under 2, after note 1 was removed
C27_Witness ==
  /\ notes.res.op = "put"
  /\ notes.res.status = 200
  /\ notes.res.data.id = 1
  /\ notes.res.id = 2
  /\ notes.res.body[1].id = 2
  /\ ~HasNote(notes.notes, 1)

\* a caller's request goes out in this step
Issues(k) == mcp'.pc[k] = "requested" /\ mcp.pc[k] # "requested"
Connecting == {c \in Clients : mcp.conn[c] = "connecting"}
OneClientAtATime ==
  /\ Cardinality(Connecting) <= 1
  /\ mcp.client # 0 => mcp.conn[mcp.client] \in {"connecting", "connected"}
  /\ (mcp.client = 0) = (mcp.transport = 0)
NullAfterFailure ==
  \A c \in Clients :
    mcp.conn[c] = "connecting" /\ mcp'.conn[c] = "failed" =>
      mcp'.client = 0 /\ mcp'.transport = 0

\* C28: McpService issues a tool request only on a client whose connect has
\* completed; overlapping invocations that find no connection create at
\* most one Client and transport between them; and when a connect fails the
\* client and the transport are null again.
C28_RequestsOnlyWhenConnected ==
  /\ []OneClientAtATime
  /\ [][/\ \A k \in Callers :
             Issues(k) => mcp'.conn[mcp'.used[k]] = "connected"
        /\ NullAfterFailure]_vars

\* the handlers that complete a task, and the id a step looked up
CompleteTools == LegacyRoutes \cup {"complete-task"}
IsCompleted(m, id) == MapHas(m, id) /\ MapGet(m, id).completed
Replaced(id) == Created(result') /\ result'.out[1].id = id

\* C25: a task that is completed stays completed for as long as it is in
\* the map, whatever handler of whatever server is called (a create-task
\* that stores a new task under the id ends the old task); and completing a
\* task that is already completed leaves the map as it is, update time
\* included.
C25_CompletedIsMonotone ==
  [][/\ \A id \in Ids :
          IsCompleted(tasks, id) /\ MapHas(tasks', id) /\ ~Replaced(id) =>
            IsCompleted(tasks', id)
     /\ result'.tool \in CompleteTools /\ IsCompleted(tasks, result'.arg) =>
          tasks' = tasks]_vars

\* a completed task was updated after it was completed, and a second
\* complete-task on it was answered "already completed"; it is still
\* completed and carries the update's time
C25_Witness ==
  /\ result.tool = "complete-task"
  /\ result.kind = "already-completed"
  /\ IsCompleted(tasks, result.arg)
  /\ MapGet(tasks, result.arg).title = <<"b">>

\* a call of set-env-var or of delete-env-var that was served with success
SetServed == result.tool = "set-env-var" /\ result.kind \in {"created", "updated"}
DeleteServed == result.tool = "delete-env-var" /\ result.kind = "deleted"
InStep(k) ==
  /\ MapGet(environmentVariables, k).key = k
  /\ isValidEnvKey(k)
  /\ processEnv[k] = MapGet(environmentVariables, k).value

\* C26: the map of variables and the environment of the process are in
\* step: every key of the map is a valid key, is the key of the record
\* stored under it, and names a variable of the process whose value is the
\* stored one; a set-env-var that succeeded stored its value under the
\* sanitized form of the key it was given; and after a delete-env-var that
\* succeeded the sanitized key is in neither the map nor the environment.
C26_EnvInStep ==
  /\ \A k \in MapKeys(environmentVariables) : InStep(k)
  /\ SetServed =>
       /\ MapHas(environmentVariables, sanitizeEnvKey(result.arg.key))
       /\ processEnv[sanitizeEnvKey(result.arg.key)] = result.arg.value
  /\ DeleteServed =>
       /\ ~MapHas(environmentVariables, sanitizeEnvKey(result.arg))
       /\ processEnv[sanitizeEnvKey(result.arg)] = Absent

\* a variable set under a lower-case key was deleted under the same key
\* while another variable stays stored, in step with the process
C26_Witness ==
  /\ DeleteServed
  /\ result.arg = <<"a">>
  /\ processEnv[<<"A">>] = Absent
  /\ MapHas(environmentVariables, <<"X">>)
  /\ processEnv[<<"X">>] = <<"v">>

\* the transports a step closes, and the tokens whose entry a step changes
ClosedNow == {t \in TransportIds : ~closed[t] /\ closed'[t]}
Changed == {T \in Tokens : transports'[T] # transports[T]}
RoutesToOwn(map) ==
  \A T \in Tokens : map[T] # NoTransport => sessionId'[map[T]] = T

\* C29: closing one session touches that session's entry only.  An entry
\* leaves the session map only in a step that leaves its own transport
\* closed, and it is the entry of that transport's token; in a step that
\* closes transport t (its onclose callback, a DELETE on its token, or the
\* shutdown handler) the entry of every other token is the same before and
\* after and still maps to the transport that carries that token; and the
\* close of a transport that never got a session id changes no entry.
C29_CloseTouchesOwnEntryOnly ==
  [][/\ \A T \in Changed :
          transports[T] # NoTransport =>
            /\ transports'[T] = NoTransport
            /\ sessionId[transports[T]] = T
            /\ closed'[transports[T]]
            /\ Changed = {T}
     /\ \A t \in ClosedNow :
          /\ Changed \subseteq {sessionId[t]}
          /\ sessionId[t] = NoToken => transports' = transports
          /\ RoutesToOwn(transports')]_vars

\* one session of two was closed and left the map; the other is still
\* registered under its token with its transport open
C29_Witness ==
  \E t, u \in TransportIds :
    /\ closed[t] /\ sessionId[t] # NoToken
    /\ transports[sessionId[t]] = NoTransport
    /\ ~closed[u] /\ sessionId[u] # NoToken
    /\ transports[sessionId[u]] = u

\* a transport whose initialization failed was closed without a session id
\* while a session is registered
ClosedWithoutSessionId ==
  \E t, u \in TransportIds :
    /\ closed[t] /\ sessionId[t] = NoToken
    /\ ~closed[u] /\ sessionId[u] # NoToken
    /\ transports[sessionId[u]] = u

\* what registerTools did at module load, and an array without a repeat
DocumentedTools == 23
Registered == result.tool = "registerTools" /\ result.kind = "registered"
Refused == result.tool = "registerTools" /\ result.kind = "validation-failed"
Unique(names) == Cardinality(Range(names)) = Len(names)
AllEnabled == \A f \in FeatureNames : features[f]

\* C30: tool names are unique.  For every setting of the three feature
\* flags no name occurs twice in getAllTools; validation passes exactly
\* when no name occurs twice in the array it is given; when it fails the
\* process exits with no tool registered, and when it passes every name of
\* the array is registered; and with the three features enabled the
\* registry of the repository's build has exactly 23 tools: 7 utility, 7
\* task, 4 email and 5 environment-variable tools.
C30_RegistryNamesUnique ==
  /\ Unique(getAllTools(features))
  /\ validateToolRegistry(features)
  /\ result.tool = "registerTools" =>
       LET tools == getAllTools(features) \o result.arg
       IN /\ Registered <=> Unique(tools)
          /\ Refused <=> ~Unique(tools)
          /\ Refused => registry = {} /\ proc = "exited"
          /\ Registered => registry = Range(tools) /\ proc = "running"
  /\ Registered /\ result.arg = <<>> /\ AllEnabled =>
       /\ Cardinality(registry) = DocumentedTools
       /\ Len(utilityTools) = 7 /\ Len(taskTools) = 7
       /\ Len(emailTools) = 4 /\ Len(envTools) = 5
       /\ Range(utilityTools) \cup Range(taskTools) \cup Range(emailTools)
            \cup Range(envTools) = registry

\* the repository's build registered its 23 tools with every feature on
C30_Witness ==
  /\ Registered
  /\ result.arg = <<>>
  /\ AllEnabled
  /\ Cardinality(registry) = DocumentedTools

\* a build that adds a second tool named like one far up the array was
\* refused and registered nothing
RefusedDuplicate ==
  /\ Refused
  /\ result.arg = <<"plugin-tool", "sleep">>
  /\ registry = {}
====
